---- MODULE Spec2Model ----
(***************************************************************************)
(* Retail chatbot: the conversation controller (chat_core/chat_manager.py) *)
(* in front of the field validators (chat_core/validators.py) and the      *)
(* user registry (chat_core/registry.py).                                  *)
(*                                                                         *)
(* Python text is a sequence of one-character strings, so that strip(),    *)
(* lower(), substring tests and the regular expressions are computed the   *)
(* way the code computes them.  Python None is the empty sequence and a    *)
(* present optional value v is <<v>>.  A dict is a function whose DOMAIN   *)
(* is its set of keys.                                                     *)
(***************************************************************************)
EXTENDS Integers, Sequences, FiniteSets, TLC

\* ------------------------------------------------------------------ text

None == <<>>

Some(v) == <<v>>

EmptyDict == [k \in {} |-> <<>>]

\* characters removed by str.strip() and matched by \s
Whitespace == {" ", "\t", "\n"}

AsciiDigits == {"0", "1", "2", "3", "4", "5", "6", "7", "8", "9"}

\* \d on a str pattern matches every Unicode decimal digit; "U+0663" stands
\* for the single character ARABIC-INDIC DIGIT THREE
UnicodeDigits == AsciiDigits \cup {"U+0663"}

UpperLetters ==
  <<"A", "B", "C", "D", "E", "F", "G", "H", "I", "J", "K", "L", "M",
    "N", "O", "P", "Q", "R", "S", "T", "U", "V", "W", "X", "Y", "Z",
    "Á", "É", "Í", "Ó", "Ú", "Ñ", "Ü">>

LowerLetters ==
  <<"a", "b", "c", "d", "e", "f", "g", "h", "i", "j", "k", "l", "m",
    "n", "o", "p", "q", "r", "s", "t", "u", "v", "w", "x", "y", "z",
    "á", "é", "í", "ó", "ú", "ñ", "ü">>

AsciiLetters == {UpperLetters[i] : i \in 1..26} \cup {LowerLetters[i] : i \in 1..26}

\* the character class [a-zA-ZáéíóúÁÉÍÓÚñÑ\s] of validate_nombre_completo
NameChars ==
  AsciiLetters \cup {"á", "é", "í", "ó", "ú", "Á", "É", "Í", "Ó", "Ú", "ñ", "Ñ"}
               \cup Whitespace

\* the character classes of the email pattern
EmailLocalChars == AsciiLetters \cup AsciiDigits \cup {".", "_", "%", "+", "-"}

EmailDomainChars == AsciiLetters \cup AsciiDigits \cup {".", "-"}

MinOf(S) == CHOOSE x \in S : \A y \in S : x <= y

MaxOf(S) == CHOOSE x \in S : \A y \in S : x >= y

\* str.strip()
Strip(s) ==
  LET keep == {i \in 1..Len(s) : s[i] \notin Whitespace}
  IN  IF keep = {} THEN <<>> ELSE SubSeq(s, MinOf(keep), MaxOf(keep))

LowerChar(c) ==
  IF \E i \in 1..Len(UpperLetters) : UpperLetters[i] = c
  THEN LowerLetters[CHOOSE i \in 1..Len(UpperLetters) : UpperLetters[i] = c]
  ELSE c

\* str.lower()
Lower(s) == [i \in 1..Len(s) |-> LowerChar(s[i])]

\* the Python test `word in message`
Contains(word, s) ==
  \E i \in 0..(Len(s) - Len(word)) : SubSeq(s, i + 1, i + Len(word)) = word

AnyIn(words, s) == \E w \in words : Contains(w, s)

AllIn(s, from, to, class) == \A i \in from..to : s[i] \in class

\* `$` matches at the end of the text and also before one final newline
BodyEnds(s) ==
  {Len(s)} \cup (IF Len(s) > 0 /\ s[Len(s)] = "\n" THEN {Len(s) - 1} ELSE {})

\* ------------------------------------------------------------ validators

ErrIdEmpty == "La identificación no puede estar vacía"

ErrIdFormat == "La identificación debe tener entre 4 y 11 dígitos numéricos"

ErrNameEmpty == "El nombre no puede estar vacío"

ErrNameLong == "El nombre no puede tener más de 100 caracteres"

ErrNameFormat == "El nombre solo puede contener letras, espacios y tildes"

ErrPhoneEmpty == "El teléfono no puede estar vacío"

ErrPhoneFormat == "El teléfono debe tener exactamente 10 dígitos y empezar por 3 o 6"

ErrEmailEmpty == "El email no puede estar vacío"

ErrEmailNoAt == "El email debe contener el símbolo @"

ErrEmailFormat == "El formato del email no es válido"

IdMinDigits == 4

IdMaxDigits == 11

NameMaxLen == 100

PhoneDigits == 10

TldMinLen == 2

Invalid(msg) == [valid |-> FALSE, error |-> Some(msg)]

Valid == [valid |-> TRUE, error |-> None]

\* re.match(r'^\d{4,11}$', s)
MatchesId(s) ==
  \E e \in BodyEnds(s) :
    /\ e >= IdMinDigits
    /\ e <= IdMaxDigits
    /\ AllIn(s, 1, e, UnicodeDigits)

validate_identificacion(identificacion) ==
  IF identificacion = <<>> THEN Invalid(ErrIdEmpty)
  ELSE IF ~MatchesId(identificacion) THEN Invalid(ErrIdFormat)
  ELSE Valid

\* re.match(r'^[a-zA-ZáéíóúÁÉÍÓÚñÑ\s]+$', s)
MatchesName(s) ==
  \E e \in BodyEnds(s) : e >= 1 /\ AllIn(s, 1, e, NameChars)

validate_nombre_completo(nombre) ==
  IF nombre = <<>> THEN Invalid(ErrNameEmpty)
  ELSE IF Len(nombre) > NameMaxLen THEN Invalid(ErrNameLong)
  ELSE IF ~MatchesName(nombre) THEN Invalid(ErrNameFormat)
  ELSE Valid

\* re.match(r'^[36]\d{9}$', s)
MatchesPhone(s) ==
  \E e \in BodyEnds(s) :
    /\ e = PhoneDigits
    /\ s[1] \in {"3", "6"}
    /\ AllIn(s, 2, e, UnicodeDigits)

validate_telefono(telefono) ==
  IF telefono = <<>> THEN Invalid(ErrPhoneEmpty)
  ELSE IF ~MatchesPhone(telefono) THEN Invalid(ErrPhoneFormat)
  ELSE Valid

\* re.match(r'^[a-zA-Z0-9._%+-]+@[a-zA-Z0-9.-]+\.[a-zA-Z]{2,}$', s):
\* local part s[1..a-1], "@" at a, domain s[a+1..d-1], "." at d, TLD s[d+1..e]
MatchesEmail(s) ==
  \E e \in BodyEnds(s) :
    \E a \in 2..e :
      \E d \in (a + 2)..e :
        /\ s[a] = "@"
        /\ s[d] = "."
        /\ AllIn(s, 1, a - 1, EmailLocalChars)
        /\ AllIn(s, a + 1, d - 1, EmailDomainChars)
        /\ e - d >= TldMinLen
        /\ AllIn(s, d + 1, e, AsciiLetters)

validate_email(email) ==
  IF email = <<>> THEN Invalid(ErrEmailEmpty)
  ELSE IF ~Contains(<<"@">>, email) THEN Invalid(ErrEmailNoAt)
  ELSE IF ~MatchesEmail(email) THEN Invalid(ErrEmailFormat)
  ELSE Valid

\* -------------------------------------------------------------- registry

\* a dict gains or replaces one key
Put(d, k, v) == [x \in DOMAIN d \cup {k} |-> IF x = k THEN v ELSE d[x]]

\* sqlite3 errors other than IntegrityError (database locked, disk I/O ...):
\* the registry call named by the fault raises it; "none" raises nothing
StoreFaults == {"none", "user_exists", "register_user", "get_user"}

OperationalError == "sqlite3.OperationalError"

KeyError == "KeyError"

\* rows of table usuarios whose identificacion is the given one
RowsOf(usuarios, identificacion) ==
  {i \in 1..Len(usuarios) : usuarios[i].identificacion = identificacion}

\* SELECT 1 FROM usuarios WHERE identificacion = ? AND activo = 1
user_exists(usuarios, identificacion) ==
  \E i \in RowsOf(usuarios, identificacion) : usuarios[i].activo

\* a mutant: phone and email bound to each other's column
NewRowSwapped(usuarios, identificacion, nombre_completo, telefono, email, now) ==
  [id |-> Len(usuarios) + 1,
   identificacion |-> identificacion,
   nombre_completo |-> nombre_completo,
   telefono |-> email,
   email |-> telefono,
   fecha_registro |-> now,
   activo |-> TRUE]

\* the row INSERT INTO usuarios builds: AUTOINCREMENT id, DEFAULT
\* CURRENT_TIMESTAMP, DEFAULT activo = 1
NewRow(usuarios, identificacion, nombre_completo, telefono, email, now) ==
  [id |-> Len(usuarios) + 1,
   identificacion |-> identificacion,
   nombre_completo |-> nombre_completo,
   telefono |-> telefono,
   email |-> email,
   fecha_registro |-> now,
   activo |-> TRUE]

\* a mutant: INSERT OR REPLACE without the user_exists test
register_user_replace(usuarios, identificacion, nombre_completo, telefono, email, now, fault) ==
  IF fault \in {"user_exists", "register_user"}
  THEN [ret |-> FALSE, usuarios |-> usuarios, exc |-> Some(OperationalError)]
  ELSE IF RowsOf(usuarios, identificacion) # {}
  THEN [ret |-> FALSE,
        usuarios |-> [i \in 1..Len(usuarios) |->
                        IF usuarios[i].identificacion = identificacion
                        THEN [usuarios[i] EXCEPT
                                !.nombre_completo = nombre_completo,
                                !.telefono = telefono,
                                !.email = email]
                        ELSE usuarios[i]],
        exc |-> None]
  ELSE [ret |-> TRUE,
        usuarios |-> Append(usuarios,
                      NewRow(usuarios, identificacion, nombre_completo,
                             telefono, email, now)),
        exc |-> None]

\* a mutant: the identificacion column is not UNIQUE
register_user_no_unique(usuarios, identificacion, nombre_completo, telefono, email, now, fault) ==
  IF fault \in {"user_exists", "register_user"}
  THEN [ret |-> FALSE, usuarios |-> usuarios, exc |-> Some(OperationalError)]
  ELSE IF user_exists(usuarios, identificacion)
  THEN [ret |-> FALSE, usuarios |-> usuarios, exc |-> None]
  ELSE [ret |-> TRUE,
        usuarios |-> Append(usuarios,
                      NewRow(usuarios, identificacion, nombre_completo,
                             telefono, email, now)),
        exc |-> None]

\* a mutant: the IntegrityError of the INSERT is not caught
register_user_insert_uncaught(usuarios, identificacion, nombre_completo, telefono, email, now, fault) ==
  IF fault = "register_user"
  THEN [ret |-> FALSE, usuarios |-> usuarios, exc |-> Some(OperationalError)]
  ELSE IF RowsOf(usuarios, identificacion) # {}
  THEN [ret |-> FALSE, usuarios |-> usuarios, exc |-> Some("sqlite3.IntegrityError")]
  ELSE [ret |-> TRUE,
        usuarios |-> Append(usuarios,
                      NewRow(usuarios, identificacion, nombre_completo,
                             telefono, email, now)),
        exc |-> None]

\* the try block of register_user: the INSERT and its commit in one
\* connection.  False when the UNIQUE column rejects the INSERT (the
\* IntegrityError is caught), True after the commit; any other sqlite3
\* error leaves the function
register_user_insert(usuarios, identificacion, nombre_completo, telefono, email, now, fault) ==
  IF fault = "register_user"
  THEN [ret |-> FALSE, usuarios |-> usuarios, exc |-> Some(OperationalError)]
  ELSE IF RowsOf(usuarios, identificacion) # {}
  THEN [ret |-> FALSE, usuarios |-> usuarios, exc |-> None]
  ELSE [ret |-> TRUE,
        usuarios |-> Append(usuarios,
                      NewRow(usuarios, identificacion, nombre_completo,
                             telefono, email, now)),
        exc |-> None]

\* register_user: False when the identifier is active, else what the INSERT
\* gives; an sqlite3 error in user_exists leaves the function
register_user(usuarios, identificacion, nombre_completo, telefono, email, now, fault) ==
  IF fault = "user_exists"
  THEN [ret |-> FALSE, usuarios |-> usuarios, exc |-> Some(OperationalError)]
  ELSE IF user_exists(usuarios, identificacion)
  THEN [ret |-> FALSE, usuarios |-> usuarios, exc |-> None]
  ELSE register_user_insert(usuarios, identificacion, nombre_completo,
                            telefono, email, now, fault)

\* the five columns get_user selects
UserDict(row) ==
  [identificacion |-> row.identificacion,
   nombre_completo |-> row.nombre_completo,
   telefono |-> row.telefono,
   email |-> row.email,
   fecha_registro |-> row.fecha_registro]

\* a mutant: the WHERE clause forgets the identifier
get_user_any_active(usuarios, identificacion) ==
  LET rows == {i \in 1..Len(usuarios) : usuarios[i].activo}
  IN  IF rows = {} THEN None
      ELSE Some(UserDict(usuarios[MinOf(rows)]))

\* a mutant: the WHERE clause forgets activo = 1
get_user_ignoring_activo(usuarios, identificacion) ==
  LET rows == RowsOf(usuarios, identificacion)
  IN  IF rows = {} THEN None
      ELSE Some(UserDict(usuarios[CHOOSE i \in rows : TRUE]))

\* get_user: the active row of the identifier as a dict, or None
get_user(usuarios, identificacion) ==
  LET rows == {i \in RowsOf(usuarios, identificacion) : usuarios[i].activo}
  IN  IF rows = {} THEN None
      ELSE Some(UserDict(usuarios[CHOOSE i \in rows : TRUE]))

\* indices of the rows with activo = 1
ActiveRows(usuarios) == {i \in 1..Len(usuarios) : usuarios[i].activo}

\* get_all_users: the active rows ORDER BY fecha_registro DESC, rows of
\* equal timestamp in insertion order
get_all_users(usuarios) ==
  LET rows == ActiveRows(usuarios)
      before(i) == {j \in rows :
                     \/ usuarios[j].fecha_registro > usuarios[i].fecha_registro
                     \/ /\ usuarios[j].fecha_registro = usuarios[i].fecha_registro
                        /\ j < i}
  IN  [p \in 1..Cardinality(rows) |->
         UserDict(usuarios[CHOOSE i \in rows : Cardinality(before(i)) = p - 1])]

\* get_user_count: SELECT COUNT(*) FROM usuarios WHERE activo = 1
get_user_count(usuarios) == Cardinality(ActiveRows(usuarios))

allowed_fields == {"nombre_completo", "telefono", "email"}

\* a mutant: every keyword that names a column is written
update_user_any_column(usuarios, identificacion, kwargs) ==
  LET update_fields == DOMAIN kwargs \cap
                         (allowed_fields \cup {"fecha_registro", "activo"})
  IN  IF ~user_exists(usuarios, identificacion) \/ update_fields = {}
      THEN [ret |-> FALSE, usuarios |-> usuarios]
      ELSE [ret |-> TRUE,
            usuarios |-> [i \in 1..Len(usuarios) |->
                            IF usuarios[i].identificacion = identificacion
                               /\ usuarios[i].activo
                            THEN [f \in DOMAIN usuarios[i] |->
                                    IF f \in update_fields THEN kwargs[f]
                                    ELSE usuarios[i][f]]
                            ELSE usuarios[i]]]

\* update_user: False for an identifier that is not active or when no
\* allow-listed field is passed; else the allow-listed fields of the active
\* row are set
update_user(usuarios, identificacion, kwargs) ==
  LET update_fields == DOMAIN kwargs \cap allowed_fields
  IN  IF ~user_exists(usuarios, identificacion) \/ update_fields = {}
      THEN [ret |-> FALSE, usuarios |-> usuarios]
      ELSE [ret |-> TRUE,
            usuarios |-> [i \in 1..Len(usuarios) |->
                            IF usuarios[i].identificacion = identificacion
                               /\ usuarios[i].activo
                            THEN [f \in DOMAIN usuarios[i] |->
                                    IF f \in update_fields THEN kwargs[f]
                                    ELSE usuarios[i][f]]
                            ELSE usuarios[i]]]

\* a mutant: the row is deleted
deactivate_user_delete(usuarios, identificacion) ==
  [ret |-> user_exists(usuarios, identificacion),
   usuarios |-> LET keep == {i \in 1..Len(usuarios) :
                              ~(usuarios[i].identificacion = identificacion
                                /\ usuarios[i].activo)}
                    nth(p) == CHOOSE i \in keep :
                                Cardinality({j \in keep : j < i}) = p - 1
                IN  [p \in 1..Cardinality(keep) |-> usuarios[nth(p)]]]

\* deactivate_user: UPDATE usuarios SET activo = 0 WHERE identificacion = ?
\* AND activo = 1; True when a row changed
deactivate_user(usuarios, identificacion) ==
  [ret |-> user_exists(usuarios, identificacion),
   usuarios |-> [i \in 1..Len(usuarios) |->
                   IF usuarios[i].identificacion = identificacion
                      /\ usuarios[i].activo
                   THEN [usuarios[i] EXCEPT !.activo = FALSE]
                   ELSE usuarios[i]]]

\* ------------------------------------------------- the interaction log

IntegrityError == "sqlite3.IntegrityError"

\* \w of a str pattern, over the characters of this model
WordChars ==
  {UpperLetters[i] : i \in 1..Len(UpperLetters)}
    \cup {LowerLetters[i] : i \in 1..Len(LowerLetters)}
    \cup UnicodeDigits \cup {"_"}

\* the character class [a-záéíóúñ]
PalabraChars ==
  {LowerLetters[i] : i \in 1..26} \cup {"á", "é", "í", "ó", "ú", "ñ"}

PalabraMinLen == 3

\* the stop words longer than three characters
stop_words ==
  {<<"c", "o", "m", "o">>, <<"c", "u", "a", "n", "d", "o">>,
   <<"d", "o", "n", "d", "e">>, <<"p", "o", "r", "q", "u", "e">>,
   <<"p", "a", "r", "a">>, <<"t", "i", "e", "n", "e">>,
   <<"e", "s", "t", "a">>, <<"p", "e", "r", "o">>}

\* the end of the run of \w characters that starts at position i
RunEnd(s, i) ==
  MaxOf({j \in i..Len(s) : \A k \in i..j : s[k] \in WordChars})

\* re.findall(r'\b[a-záéíóúñ]{3,}\b', s) from position i on: the maximal
\* runs of \w characters that lie in the class and have three characters
RECURSIVE FindPalabras(_, _)
FindPalabras(s, i) ==
  IF i > Len(s) THEN <<>>
  ELSE IF s[i] \notin WordChars THEN FindPalabras(s, i + 1)
  ELSE LET j == RunEnd(s, i)
           palabra == SubSeq(s, i, j)
       IN  (IF j - i + 1 >= PalabraMinLen /\ AllIn(s, i, j, PalabraChars)
            THEN <<palabra>> ELSE <<>>) \o FindPalabras(s, j + 1)

\* palabras_relevantes of _actualizar_palabras_frecuentes
palabras_relevantes(mensaje) ==
  SelectSeq(FindPalabras(Lower(mensaje), 1),
            LAMBDA p : p \notin stop_words /\ Len(p) > 3)

\* INSERT OR REPLACE INTO palabras_frecuentes: the row of the word, if
\* any, is deleted and a row with its frequency plus one is inserted
ReplacePalabra(tabla, palabra, now) ==
  LET old == {i \in 1..Len(tabla) : tabla[i].palabra = palabra}
      frecuencia == IF old = {} THEN 0 ELSE tabla[CHOOSE i \in old : TRUE].frecuencia
  IN  Append(SelectSeq(tabla, LAMBDA row : row.palabra # palabra),
             [palabra |-> palabra, frecuencia |-> frecuencia + 1,
              ultima_actualizacion |-> now])

RECURSIVE actualizar_palabras(_, _, _)
actualizar_palabras(tabla, palabras, now) ==
  IF palabras = <<>> THEN tabla
  ELSE actualizar_palabras(ReplacePalabra(tabla, Head(palabras), now),
                           Tail(palabras), now)

\* _actualizar_palabras_frecuentes(cursor, mensaje)
actualizar_palabras_frecuentes(tabla, mensaje, now) ==
  actualizar_palabras(tabla, palabras_relevantes(mensaje), now)

TipoHorarios == <<"h", "o", "r", "a", "r", "i", "o", "s">>

TipoPromociones == <<"p", "r", "o", "m", "o", "c", "i", "o", "n", "e", "s">>

TipoGenerales == <<"g", "e", "n", "e", "r", "a", "l", "e", "s">>

\* the text with its trailing whitespace removed
RTrim(s) ==
  LET keep == {i \in 1..Len(s) : s[i] \notin Whitespace}
  IN  IF keep = {} THEN <<>> ELSE SubSeq(s, 1, MaxOf(keep))

\* the column of metricas_diarias that the SQL name consultas_<tail>
\* resolves to, "" when there is none: SQLite compares column names without
\* regard to case and the whitespace after a name is not part of it
ColumnOf(tail) ==
  LET name == Lower(RTrim(tail))
  IN  IF name = TipoHorarios THEN "consultas_horarios"
      ELSE IF name = TipoPromociones THEN "consultas_promociones"
      ELSE IF name = TipoGenerales THEN "consultas_generales"
      ELSE ""

DigitSeq == <<"0", "1", "2", "3", "4", "5", "6", "7", "8", "9">>

\* positions where an SQL comment "--" starts
CommentStarts(s) == {k \in 1..(Len(s) - 1) : s[k] = "-" /\ s[k + 1] = "-"}

\* what SQLite makes of the line  SET consultas_<tipo> = consultas_<tipo> + 1
\* that the f-string builds: "add" one to a column when consultas_<tipo>
\* names one; when tipo holds "--" the line ends there, and  <tail> = <digit>
\* in front of it is to "set" the column to that value; anything else read
\* here is an "error" (no such column, syntax error)
SetClause(tipo_consulta) ==
  IF CommentStarts(tipo_consulta) = {}
  THEN IF ColumnOf(tipo_consulta) # ""
       THEN [kind |-> "add", column |-> ColumnOf(tipo_consulta), value |-> 1]
       ELSE [kind |-> "error", column |-> "", value |-> 0]
  ELSE LET k == MinOf(CommentStarts(tipo_consulta))
           eqs == {e \in 2..(k - 2) :
                     /\ tipo_consulta[e] = "="
                     /\ ColumnOf(SubSeq(tipo_consulta, 1, e - 1)) # ""
                     /\ Len(Strip(SubSeq(tipo_consulta, e + 1, k - 1))) = 1
                     /\ Strip(SubSeq(tipo_consulta, e + 1, k - 1))[1] \in AsciiDigits}
       IN  IF eqs = {}
           THEN [kind |-> "error", column |-> "", value |-> 0]
           ELSE LET e == MinOf(eqs)
                    digit == Strip(SubSeq(tipo_consulta, e + 1, k - 1))[1]
                IN  [kind |-> "set",
                     column |-> ColumnOf(SubSeq(tipo_consulta, 1, e - 1)),
                     value |-> (CHOOSE n \in 1..10 : DigitSeq[n] = digit) - 1]

\* the row INSERT OR IGNORE INTO metricas_diarias (fecha) builds
NewMetricas(tabla, hoy) ==
  [id |-> Len(tabla) + 1, fecha |-> hoy, total_mensajes |-> 0,
   usuarios_unicos |-> 0, usuarios_nuevos |-> 0, consultas_horarios |-> 0,
   consultas_promociones |-> 0, consultas_generales |-> 0]

\* _actualizar_metricas_diarias(cursor, tipo_consulta): the row of today
\* is created if missing, its total_mensajes grows by one, and when
\* tipo_consulta is truthy the UPDATE built from it is executed
actualizar_metricas_diarias(tabla, tipo_consulta, hoy) ==
  LET with_row == IF \E i \in 1..Len(tabla) : tabla[i].fecha = hoy
                  THEN tabla ELSE Append(tabla, NewMetricas(tabla, hoy))
      counted == [i \in 1..Len(with_row) |->
                    IF with_row[i].fecha = hoy
                    THEN [with_row[i] EXCEPT !.total_mensajes = @ + 1]
                    ELSE with_row[i]]
      clause == SetClause(tipo_consulta)
  IN  IF tipo_consulta = <<>> THEN [tabla |-> counted, exc |-> None]
      ELSE IF clause.kind = "error"
      THEN [tabla |-> counted, exc |-> Some(OperationalError)]
      ELSE [tabla |-> [i \in 1..Len(counted) |->
                         IF counted[i].fecha = hoy
                         THEN [f \in DOMAIN counted[i] |->
                                 IF f # clause.column THEN counted[i][f]
                                 ELSE IF clause.kind = "add"
                                 THEN counted[i][f] + clause.value
                                 ELSE clause.value]
                         ELSE counted[i]],
            exc |-> None]

\* the faults of a call: a sqlite3 error raised by the statement named
LogFaults == {"none", "insert", "commit"}

\* the three tables as one value
Tables(c, m, p) ==
  [conversaciones |-> c, metricas_diarias |-> m, palabras_frecuentes |-> p]

\* registrar_conversacion: the INSERT into conversaciones, the metrics of
\* the day and the frequent words are one transaction of the connection,
\* committed at the end and rolled back by the `with` block when any
\* statement raises; the exception then leaves the function
registrar_conversacion(db, call, now, fault) ==
  LET row == [id |-> Len(db.conversaciones) + 1,
              usuario_id |-> call.usuario_id,
              session_id |-> call.session_id,
              mensaje_usuario |-> call.mensaje_usuario,
              respuesta_bot |-> call.respuesta_bot,
              timestamp |-> now,
              tipo_consulta |-> call.tipo_consulta]
      m == actualizar_metricas_diarias(db.metricas_diarias,
                                       call.tipo_consulta, now)
  IN  IF fault = "insert" THEN [db |-> db, exc |-> Some(OperationalError)]
      ELSE IF call.session_id = None
      THEN [db |-> db, exc |-> Some(IntegrityError)]
      ELSE IF m.exc # None THEN [db |-> db, exc |-> m.exc]
      ELSE IF fault = "commit"
      THEN [db |-> db, exc |-> Some(OperationalError)]
      ELSE [db |-> Tables(Append(db.conversaciones, row), m.tabla,
                          actualizar_palabras_frecuentes(
                            db.palabras_frecuentes, call.mensaje_usuario, now)),
            exc |-> None]

\* ------------------------------------------------------------ controller

\* ConversationState
WELCOME == "welcome"

IDENTIFY_USER_TYPE == "identify_user_type"

EXISTING_USER_ID == "existing_user_id"

NEW_USER_ID == "new_user_id"

NEW_USER_NAME == "new_user_name"

NEW_USER_PHONE == "new_user_phone"

NEW_USER_EMAIL == "new_user_email"

CHAT_ACTIVE == "chat_active"

ConversationState ==
  {WELCOME, IDENTIFY_USER_TYPE, EXISTING_USER_ID, NEW_USER_ID, NEW_USER_NAME,
   NEW_USER_PHONE, NEW_USER_EMAIL, CHAT_ACTIVE}

\* A reply is the sequence of the pieces the code concatenates: a literal of
\* the code, or text that came from a message or from the store.  Symbols
\* outside Latin-1 are written as their code point, "U+274C" for the cross.
Lit(s) == [lit |-> s]

Txt(cs) == [txt |-> cs]

WELCOME_MESSAGE ==
  <<Lit("¡Hola! Soy tu asistente virtual del supermercado. \n¿Eres un cliente nuevo o ya tienes cuenta con nosotros?\n\nResponde:\n- \"Soy nuevo\" o \"Cliente nuevo\" para registrarte\n- \"Ya tengo cuenta\" o \"Cliente frecuente\" para identificarte")>>

DEBUG == FALSE

TxtAskNewId ==
  "Perfecto! Vamos a registrarte. Primero necesito tu número de identificación (entre 4 y 11 dígitos):"

TxtAskExistingId ==
  "¡Excelente! Por favor ingresa tu número de identificación para verificar tu cuenta:"

TxtClarify ==
  "No entendí tu respuesta. Por favor indica si eres un cliente nuevo o ya tienes cuenta con nosotros."

TxtCross == "U+274C "

TxtRetryExisting == " Por favor ingresa tu identificación correctamente:"

TxtRetry == " Por favor intenta de nuevo:"

TxtHello == "¡Hola "

TxtHelloEnd == "! U+1F60A ¿En qué puedo ayudarte hoy?"

TxtNotFound ==
  "No encontré tu identificación en nuestro sistema. ¿Te gustaría registrarte como cliente nuevo?"

TxtAlreadyRegistered ==
  "U+274C Esta identificación ya está registrada. ¿Eres un cliente frecuente? Si es así, puedes identificarte directamente."

TxtAskName == "U+2705 Perfecto! Ahora necesito tu nombre completo:"

TxtAskPhone ==
  "U+2705 Excelente! Ahora necesito tu número de teléfono (10 dígitos, iniciando por 3 o 6):"

TxtAskEmail == "U+2705 Perfecto! Por último, necesito tu correo electrónico:"

TxtRegistered == "U+1F389 ¡Registro completado exitosamente! Bienvenido/a "

TxtRegisteredEnd == ". ¿En qué puedo ayudarte hoy?"

TxtRegisterFailed ==
  "U+274C Hubo un error en el registro. Por favor contacta al servicio al cliente."

TxtChatError ==
  "Lo siento, hubo un problema procesando tu consulta. Por favor intenta de nuevo o contacta al servicio al cliente."

TxtResetApology == "Hubo un problema. Vamos a empezar de nuevo. "

TxtSources == "\n\nU+1F4DA *Información obtenida de: "

TxtSuggestions == "\n\nU+1F4A1 **También podrías preguntar:**\n"

TxtCapabilitiesHello == "¡Hola"

TxtCapabilities ==
  "! U+1F916 Soy tu asistente virtual del supermercado y puedo ayudarte proporcionando información sobre: Horarios de Atención, Promociones y Ofertas, Preguntas Frecuentes ... ¿En qué te gustaría que te ayude hoy? U+1F60A"

NewUserWords ==
  {<<"n", "u", "e", "v", "o">>,
   <<"n", "u", "e", "v", "a">>,
   <<"r", "e", "g", "i", "s", "t", "r", "a", "r">>,
   <<"r", "e", "g", "i", "s", "t", "r", "o">>}

ExistingUserWords ==
  {<<"f", "r", "e", "c", "u", "e", "n", "t", "e">>,
   <<"c", "u", "e", "n", "t", "a">>,
   <<"t", "e", "n", "g", "o">>,
   <<"y", "a">>,
   <<"r", "e", "g", "i", "s", "t", "r", "a", "d", "o">>}

capability_keywords ==
  {<<"e", "n", " ", "q", "u", "é", " ", "m", "e", " ", "p", "u", "e", "d", "e", "s", " ", "a", "y", "u", "d", "a", "r">>,
   <<"q", "u", "é", " ", "p", "u", "e", "d", "e", "s", " ", "h", "a", "c", "e", "r">>,
   <<"c", "ó", "m", "o", " ", "m", "e", " ", "a", "y", "u", "d", "a", "s">>,
   <<"c", "u", "á", "l", "e", "s", " ", "s", "o", "n", " ", "t", "u", "s", " ", "f", "u", "n", "c", "i", "o", "n", "e", "s">>,
   <<"q", "u", "é", " ", "s", "e", "r", "v", "i", "c", "i", "o", "s", " ", "o", "f", "r", "e", "c", "e", "s">>,
   <<"p", "a", "r", "a", " ", "q", "u", "é", " ", "s", "i", "r", "v", "e", "s">>,
   <<"q", "u", "é", " ", "i", "n", "f", "o", "r", "m", "a", "c", "i", "ó", "n", " ", "t", "i", "e", "n", "e", "s">>,
   <<"e", "n", " ", "q", "u", "é", " ", "m", "e", " ", "s", "i", "r", "v", "e", "s">>,
   <<"c", "ó", "m", "o", " ", "f", "u", "n", "c", "i", "o", "n", "a", " ", "e", "s", "t", "e", " ", "c", "h", "a", "t">>,
   <<"q", "u", "é", " ", "c", "o", "n", "s", "u", "l", "t", "a", "s", " ", "p", "u", "e", "d", "o", " ", "h", "a", "c", "e", "r">>,
   <<"d", "i", "m", "e", " ", "q", "u", "é", " ", "h", "a", "c", "e", "s">>,
   <<"c", "u", "á", "l", " ", "e", "s", " ", "t", "u", " ", "p", "r", "o", "p", "ó", "s", "i", "t", "o">>,
   <<"q", "u", "é", " ", "t", "i", "p", "o", " ", "d", "e", " ", "a", "y", "u", "d", "a", " ", "d", "a", "s">>,
   <<"q", "u", "é", " ", "p", "r", "e", "g", "u", "n", "t", "a", "s", " ", "p", "u", "e", "d", "o", " ", "h", "a", "c", "e", "r", "t", "e">>}

\* what a handler hands back: `return reply, session_state`, or an
\* exception leaving handle_message; session_state is the caller's dict and
\* keeps the changes made before the exception
Returned(reply, session_state, usuarios, calls) ==
  [reply |-> reply, session |-> session_state, usuarios |-> usuarios,
   calls |-> calls, exc |-> None]

Raised(exc, session_state, usuarios, calls) ==
  [reply |-> <<>>, session |-> session_state, usuarios |-> usuarios,
   calls |-> calls, exc |-> Some(exc)]

\* a mutant: the two keyword tests in the other order
handle_user_type_identification_existing_first(message, session_state, usuarios, calls) ==
  IF AnyIn(ExistingUserWords, message)
  THEN Returned(<<Lit(TxtAskExistingId)>>,
                Put(session_state, "conversation_state", EXISTING_USER_ID),
                usuarios, calls)
  ELSE IF AnyIn(NewUserWords, message)
  THEN Returned(<<Lit(TxtAskNewId)>>,
                Put(session_state, "conversation_state", NEW_USER_ID),
                usuarios, calls)
  ELSE Returned(<<Lit(TxtClarify)>>, session_state, usuarios, calls)

handle_user_type_identification(message, session_state, usuarios, calls) ==
  IF AnyIn(NewUserWords, message)
  THEN Returned(<<Lit(TxtAskNewId)>>,
                Put(session_state, "conversation_state", NEW_USER_ID),
                usuarios, calls)
  ELSE IF AnyIn(ExistingUserWords, message)
  THEN Returned(<<Lit(TxtAskExistingId)>>,
                Put(session_state, "conversation_state", EXISTING_USER_ID),
                usuarios, calls)
  ELSE Returned(<<Lit(TxtClarify)>>, session_state, usuarios, calls)

\* a mutant: the welcome text whatever the message
handle_welcome_any_message(message, session_state, usuarios, calls) ==
  Returned(WELCOME_MESSAGE,
           Put(session_state, "conversation_state", IDENTIFY_USER_TYPE),
           usuarios, calls)

handle_welcome(message, session_state, usuarios, calls) ==
  IF Strip(message) = <<>>
  THEN Returned(WELCOME_MESSAGE,
                Put(session_state, "conversation_state", IDENTIFY_USER_TYPE),
                usuarios, calls)
  ELSE handle_user_type_identification(message, session_state, usuarios, calls)

\* a mutant: the result of get_user is not tested
handle_existing_user_id_unchecked(message, session_state, usuarios, calls, fault) ==
  LET identificacion == Strip(message)
      v == validate_identificacion(identificacion)
      user == get_user(usuarios, identificacion)
  IN  IF ~v.valid
      THEN Returned(<<Lit(TxtCross), Lit(v.error[1]), Lit(TxtRetryExisting)>>,
                    session_state, usuarios, calls)
      ELSE IF fault = "get_user"
      THEN Raised(OperationalError, session_state, usuarios, calls)
      ELSE Returned(<<Lit(TxtHello),
                      Txt(IF user # None THEN user[1].nombre_completo ELSE <<>>),
                      Lit(TxtHelloEnd)>>,
                    Put(Put(session_state, "current_user", user),
                        "conversation_state", CHAT_ACTIVE),
                    usuarios, calls)

handle_existing_user_id(message, session_state, usuarios, calls, fault) ==
  LET identificacion == Strip(message)
      v == validate_identificacion(identificacion)
      user == get_user(usuarios, identificacion)
  IN  IF ~v.valid
      THEN Returned(<<Lit(TxtCross), Lit(v.error[1]), Lit(TxtRetryExisting)>>,
                    session_state, usuarios, calls)
      ELSE IF fault = "get_user"
      THEN Raised(OperationalError, session_state, usuarios, calls)
      ELSE IF user # None
      THEN Returned(<<Lit(TxtHello), Txt(user[1].nombre_completo), Lit(TxtHelloEnd)>>,
                    Put(Put(session_state, "current_user", user),
                        "conversation_state", CHAT_ACTIVE),
                    usuarios, calls)
      ELSE Returned(<<Lit(TxtNotFound)>>,
                    Put(session_state, "conversation_state", IDENTIFY_USER_TYPE),
                    usuarios, calls)

\* a mutant: the value replaces the pending data
Stash_replace(session_state, field, value) ==
  Put(session_state, "user_data", Put(EmptyDict, field, value))

\* session_state["user_data"][field] = value
Stash(session_state, field, value) ==
  Put(session_state, "user_data", Put(session_state.user_data, field, value))

\* a mutant: a registered identifier sends the user to identification
handle_new_user_id_redirect(message, session_state, usuarios, calls, fault) ==
  LET identificacion == Strip(message)
      v == validate_identificacion(identificacion)
  IN  IF ~v.valid
      THEN Returned(<<Lit(TxtCross), Lit(v.error[1]), Lit(TxtRetry)>>,
                    session_state, usuarios, calls)
      ELSE IF fault = "user_exists"
      THEN Raised(OperationalError, session_state, usuarios, calls)
      ELSE IF user_exists(usuarios, identificacion)
      THEN Returned(<<Lit(TxtAlreadyRegistered)>>,
                    Put(session_state, "conversation_state", EXISTING_USER_ID),
                    usuarios, calls)
      ELSE IF "user_data" \notin DOMAIN session_state
      THEN Raised(KeyError, session_state, usuarios, calls)
      ELSE Returned(<<Lit(TxtAskName)>>,
                    Put(Stash(session_state, "identificacion", identificacion),
                        "conversation_state", NEW_USER_NAME),
                    usuarios, calls)

handle_new_user_id(message, session_state, usuarios, calls, fault) ==
  LET identificacion == Strip(message)
      v == validate_identificacion(identificacion)
  IN  IF ~v.valid
      THEN Returned(<<Lit(TxtCross), Lit(v.error[1]), Lit(TxtRetry)>>,
                    session_state, usuarios, calls)
      ELSE IF fault = "user_exists"
      THEN Raised(OperationalError, session_state, usuarios, calls)
      ELSE IF user_exists(usuarios, identificacion)
      THEN Returned(<<Lit(TxtAlreadyRegistered)>>, session_state, usuarios, calls)
      ELSE IF "user_data" \notin DOMAIN session_state
      THEN Raised(KeyError, session_state, usuarios, calls)
      ELSE Returned(<<Lit(TxtAskName)>>,
                    Put(Stash(session_state, "identificacion", identificacion),
                        "conversation_state", NEW_USER_NAME),
                    usuarios, calls)

\* a mutant: the name is stashed before it is validated
handle_new_user_name_stash_first(message, session_state, usuarios, calls) ==
  LET nombre == Strip(message)
      v == validate_nombre_completo(nombre)
      stashed == Stash(session_state, "nombre_completo", nombre)
  IN  IF ~v.valid
      THEN Returned(<<Lit(TxtCross), Lit(v.error[1]), Lit(TxtRetry)>>,
                    stashed, usuarios, calls)
      ELSE Returned(<<Lit(TxtAskPhone)>>,
                    Put(stashed, "conversation_state", NEW_USER_PHONE),
                    usuarios, calls)

handle_new_user_name(message, session_state, usuarios, calls) ==
  LET nombre == Strip(message)
      v == validate_nombre_completo(nombre)
  IN  IF ~v.valid
      THEN Returned(<<Lit(TxtCross), Lit(v.error[1]), Lit(TxtRetry)>>,
                    session_state, usuarios, calls)
      ELSE IF "user_data" \notin DOMAIN session_state
      THEN Raised(KeyError, session_state, usuarios, calls)
      ELSE Returned(<<Lit(TxtAskPhone)>>,
                    Put(Stash(session_state, "nombre_completo", nombre),
                        "conversation_state", NEW_USER_PHONE),
                    usuarios, calls)

\* a mutant: the phone is taken as it is typed, without the validator
handle_new_user_phone_unvalidated(message, session_state, usuarios, calls) ==
  LET telefono == Strip(message)
  IN  IF "user_data" \notin DOMAIN session_state
      THEN Raised(KeyError, session_state, usuarios, calls)
      ELSE Returned(<<Lit(TxtAskEmail)>>,
                    Put(Stash(session_state, "telefono", telefono),
                        "conversation_state", NEW_USER_EMAIL),
                    usuarios, calls)

handle_new_user_phone(message, session_state, usuarios, calls) ==
  LET telefono == Strip(message)
      v == validate_telefono(telefono)
  IN  IF ~v.valid
      THEN Returned(<<Lit(TxtCross), Lit(v.error[1]), Lit(TxtRetry)>>,
                    session_state, usuarios, calls)
      ELSE IF "user_data" \notin DOMAIN session_state
      THEN Raised(KeyError, session_state, usuarios, calls)
      ELSE Returned(<<Lit(TxtAskEmail)>>,
                    Put(Stash(session_state, "telefono", telefono),
                        "conversation_state", NEW_USER_EMAIL),
                    usuarios, calls)

UserDataFields == {"identificacion", "nombre_completo", "telefono", "email"}

\* a mutant: name and phone change places
RegisterArgsSwapped(user_data) ==
  <<user_data.identificacion, user_data.telefono,
    user_data.nombre_completo, user_data.email>>

\* the positional arguments of the register_user call
RegisterArgs(user_data) ==
  <<user_data.identificacion, user_data.nombre_completo,
    user_data.telefono, user_data.email>>

\* a mutant: the result of register_user is not tested
handle_new_user_email_unchecked(message, session_state, usuarios, calls, fault, now) ==
  LET email == Strip(message)
      v == validate_email(email)
  IN  IF ~v.valid
      THEN Returned(<<Lit(TxtCross), Lit(v.error[1]), Lit(TxtRetry)>>,
                    session_state, usuarios, calls)
      ELSE
        LET stashed == Stash(session_state, "email", email)
            user_data == stashed.user_data
            args == RegisterArgs(user_data)
            r == register_user(usuarios, args[1], args[2], args[3], args[4],
                               now, fault)
        IN  IF r.exc # None
            THEN Raised(r.exc[1], stashed, r.usuarios, Append(calls, args))
            ELSE Returned(<<Lit(TxtRegistered),
                            Txt(user_data.nombre_completo),
                            Lit(TxtRegisteredEnd)>>,
                          Put(Put(stashed, "current_user",
                                  get_user(r.usuarios, user_data.identificacion)),
                              "conversation_state", CHAT_ACTIVE),
                          r.usuarios, Append(calls, args))

handle_new_user_email(message, session_state, usuarios, calls, fault, now) ==
  LET email == Strip(message)
      v == validate_email(email)
  IN  IF ~v.valid
      THEN Returned(<<Lit(TxtCross), Lit(v.error[1]), Lit(TxtRetry)>>,
                    session_state, usuarios, calls)
      ELSE IF "user_data" \notin DOMAIN session_state
      THEN Raised(KeyError, session_state, usuarios, calls)
      ELSE
        LET stashed == Stash(session_state, "email", email)
            user_data == stashed.user_data
        IN  IF ~(UserDataFields \subseteq DOMAIN user_data)
            THEN Raised(KeyError, stashed, usuarios, calls)
            ELSE
              LET args == RegisterArgs(user_data)
                  called == Append(calls, args)
                  r == register_user(usuarios, args[1], args[2], args[3],
                                     args[4], now, fault)
              IN  IF r.exc # None
                  THEN Raised(r.exc[1], stashed, r.usuarios, called)
                  ELSE IF ~r.ret
                  THEN Returned(<<Lit(TxtRegisterFailed)>>, stashed,
                                r.usuarios, called)
                  ELSE IF fault = "get_user"
                  THEN Raised(OperationalError, stashed, r.usuarios, called)
                  ELSE Returned(<<Lit(TxtRegistered),
                                  Txt(user_data.nombre_completo),
                                  Lit(TxtRegisteredEnd)>>,
                                Put(Put(stashed, "current_user",
                                        get_user(r.usuarios,
                                                 user_data.identificacion)),
                                    "conversation_state", CHAT_ACTIVE),
                                r.usuarios, called)

\* --------------------------------------------- retrieval engine, as seen
\* by the controller: ask_question hands back (answer, sources, metadata)
\* or raises; quality scores are in hundredths

QualityThreshold == 60

TxtAnswer == "Nuestros horarios son de lunes a viernes de 8:00 AM a 6:00 PM"

TxtCannotProcess ==
  "Lo siento, no puedo procesar tu consulta en este momento. Por favor contacta al servicio al cliente."

TxtAskError ==
  "Lo siento, hubo un error procesando tu consulta. Por favor intenta de nuevo."

Meta(quality_score, sources_used) ==
  [quality_score |-> quality_score, sources_used |-> sources_used]

\* what the engine does in one turn: ask_question raises or hands back its
\* triple, and get_context_aware_suggestions raises or not if it is called
Outcome(raises, answer, sources, metadata, suggest_raises) ==
  [raises |-> raises, answer |-> answer, sources |-> sources,
   metadata |-> metadata, suggest_raises |-> suggest_raises]

AskOutcomes ==
  {Outcome(TRUE, "", <<>>, EmptyDict, FALSE),
   Outcome(FALSE, TxtCannotProcess, <<>>, EmptyDict, FALSE),
   Outcome(FALSE, TxtAskError, <<>>, Meta(0, 0), FALSE),
   Outcome(FALSE, TxtAnswer, <<"horarios">>, Meta(QualityThreshold - 1, 1),
           FALSE),
   Outcome(FALSE, TxtAnswer, <<"horarios">>, Meta(QualityThreshold - 1, 1),
           TRUE),
   Outcome(FALSE, TxtAnswer, <<>>, Meta(QualityThreshold, 0), FALSE),
   Outcome(FALSE, TxtAnswer, <<>>, Meta(QualityThreshold, 0), TRUE),
   Outcome(FALSE, TxtAnswer, <<"horarios", "preguntas_frecuentes">>,
           Meta(90, 2), FALSE)}

HoursWords ==
  {<<"h", "o", "r", "a", "r", "i", "o">>,
   <<"h", "o", "r", "a">>,
   <<"a", "b", "i", "e", "r", "t", "o">>}

PromoWords ==
  {<<"p", "r", "o", "m", "o", "c", "i", "ó", "n">>,
   <<"d", "e", "s", "c", "u", "e", "n", "t", "o">>,
   <<"o", "f", "e", "r", "t", "a">>}

HelpWords ==
  {<<"a", "y", "u", "d", "a">>,
   <<"a", "y", "u", "d", "a", "r">>,
   <<"s", "e", "r", "v", "i", "c", "i", "o">>}

MaxSuggestions == 2

\* suggestions[:n]
Take(seq, n) == SubSeq(seq, 1, IF Len(seq) < n THEN Len(seq) ELSE n)

get_context_aware_suggestions(question) ==
  LET question_lower == Lower(question)
      suggestions ==
        IF AnyIn(HoursWords, question_lower)
        THEN <<"¿Necesitas información sobre horarios de días específicos?",
               "¿Te interesa conocer horarios de sucursales particulares?">>
        ELSE IF AnyIn(PromoWords, question_lower)
        THEN <<"¿Quieres conocer más detalles del programa Suma y Gana?",
               "¿Te interesa información sobre cómo redimir puntos?">>
        ELSE IF AnyIn(HelpWords, question_lower)
        THEN <<"Puedo informarte sobre horarios de atención",
               "Puedo darte información sobre el programa Suma y Gana">>
        ELSE <<"¿Necesitas información sobre horarios de atención?",
               "¿Te interesa conocer sobre nuestras promociones?">>
  IN  Take(suggestions, MaxSuggestions)

is_bot_capability_question(message) == AnyIn(capability_keywords, message)

\* session_state.get("current_user")
GetCurrentUser(session_state) ==
  IF "current_user" \in DOMAIN session_state
  THEN session_state.current_user ELSE None

respond_bot_capabilities(session_state, usuarios, calls) ==
  LET user == GetCurrentUser(session_state)
      user_name == IF user # None
                   THEN <<Lit(" "), Txt(user[1].nombre_completo)>>
                   ELSE <<>>
  IN  Returned(<<Lit(TxtCapabilitiesHello)>> \o user_name
                 \o <<Lit(TxtCapabilities)>>,
               session_state, usuarios, calls)

\* ", ".join(sources)
JoinSources(sources) ==
  [i \in 1..(IF Len(sources) = 0 THEN 0 ELSE 2 * Len(sources) - 1) |->
     IF i % 2 = 1 THEN Lit(sources[(i + 1) \div 2]) ELSE Lit(", ")]

\* the "• suggestion\n" lines
SuggestionLines(suggestions) ==
  [i \in 1..(3 * Len(suggestions)) |->
     IF i % 3 = 1 THEN Lit("U+2022 ")
     ELSE IF i % 3 = 2 THEN Lit(suggestions[(i + 1) \div 3])
     ELSE Lit("\n")]

\* metadata.get("quality_score", 0)
QualityOf(metadata) ==
  IF "quality_score" \in DOMAIN metadata THEN metadata.quality_score ELSE 0

\* a mutant: the reset keeps the identity
reset_conversation_keep_user(session_state, usuarios, calls) ==
  Returned(<<Lit(TxtResetApology)>> \o WELCOME_MESSAGE,
           Put(Put(session_state, "conversation_state", WELCOME),
               "user_data", EmptyDict),
           usuarios, calls)

reset_conversation(session_state, usuarios, calls) ==
  Returned(<<Lit(TxtResetApology)>> \o WELCOME_MESSAGE,
           Put(Put(Put(session_state, "conversation_state", WELCOME),
                   "user_data", EmptyDict),
               "current_user", None),
           usuarios, calls)

\* a mutant: suggestions whatever the score
NeedsSuggestionsAlways(metadata) == TRUE

\* metadata.get("quality_score", 0) < 0.6
NeedsSuggestions(metadata) == QualityOf(metadata) < QualityThreshold

\* a mutant: an engine error resets the conversation
handle_active_chat_reset_on_error(message, session_state, usuarios, calls, ask) ==
  LET message_lower == Strip(Lower(message))
      suggestions == get_context_aware_suggestions(message)
      footer == IF ask.sources # <<>>
                THEN <<Lit(TxtSources)>> \o JoinSources(ask.sources)
                       \o <<Lit("*")>>
                ELSE <<>>
      extra == IF NeedsSuggestions(ask.metadata) /\ suggestions # <<>>
               THEN <<Lit(TxtSuggestions)>>
                      \o SuggestionLines(Take(suggestions, 2))
               ELSE <<>>
      debug == IF DEBUG THEN <<Lit("\n\nU+1F50D *Score, Fuentes*")>> ELSE <<>>
  IN  IF is_bot_capability_question(message_lower)
      THEN respond_bot_capabilities(session_state, usuarios, calls)
      ELSE IF ask.raises
              \/ (NeedsSuggestions(ask.metadata) /\ ask.suggest_raises)
      THEN reset_conversation(session_state, usuarios, calls)
      ELSE Returned(<<Lit(ask.answer)>> \o footer \o extra \o debug,
                    session_state, usuarios, calls)

\* a mutant: no try/except around the answer
handle_active_chat_uncaught(message, session_state, usuarios, calls, ask) ==
  LET message_lower == Strip(Lower(message))
      suggestions == get_context_aware_suggestions(message)
      footer == IF ask.sources # <<>>
                THEN <<Lit(TxtSources)>> \o JoinSources(ask.sources)
                       \o <<Lit("*")>>
                ELSE <<>>
      extra == IF NeedsSuggestions(ask.metadata) /\ suggestions # <<>>
               THEN <<Lit(TxtSuggestions)>>
                      \o SuggestionLines(Take(suggestions, 2))
               ELSE <<>>
      debug == IF DEBUG THEN <<Lit("\n\nU+1F50D *Score, Fuentes*")>> ELSE <<>>
  IN  IF is_bot_capability_question(message_lower)
      THEN respond_bot_capabilities(session_state, usuarios, calls)
      ELSE IF ask.raises
              \/ (NeedsSuggestions(ask.metadata) /\ ask.suggest_raises)
      THEN Raised("Exception", session_state, usuarios, calls)
      ELSE Returned(<<Lit(ask.answer)>> \o footer \o extra \o debug,
                    session_state, usuarios, calls)

\* the try block: an exception of ask_question, or of the suggestion
\* generator when it is called, ends in the except branch
handle_active_chat(message, session_state, usuarios, calls, ask) ==
  LET message_lower == Strip(Lower(message))
      suggestions == get_context_aware_suggestions(message)
      footer == IF ask.sources # <<>>
                THEN <<Lit(TxtSources)>> \o JoinSources(ask.sources)
                       \o <<Lit("*")>>
                ELSE <<>>
      extra == IF NeedsSuggestions(ask.metadata) /\ suggestions # <<>>
               THEN <<Lit(TxtSuggestions)>>
                      \o SuggestionLines(Take(suggestions, 2))
               ELSE <<>>
      debug == IF DEBUG THEN <<Lit("\n\nU+1F50D *Score, Fuentes*")>> ELSE <<>>
  IN  IF is_bot_capability_question(message_lower)
      THEN respond_bot_capabilities(session_state, usuarios, calls)
      ELSE IF ask.raises
              \/ (NeedsSuggestions(ask.metadata) /\ ask.suggest_raises)
      THEN Returned(<<Lit(TxtChatError)>>, session_state, usuarios, calls)
      ELSE Returned(<<Lit(ask.answer)>> \o footer \o extra \o debug,
                    session_state, usuarios, calls)

\* a mutant: only the conversation state is initialised
InitialiseStateOnly(session_state) ==
  IF "conversation_state" \notin DOMAIN session_state
  THEN Put(session_state, "conversation_state", WELCOME)
  ELSE session_state

\* "Inicializar estado si es nuevo"
InitialiseSession(session_state) ==
  IF "conversation_state" \notin DOMAIN session_state
  THEN Put(Put(Put(session_state, "conversation_state", WELCOME),
               "user_data", EmptyDict),
           "current_user", None)
  ELSE session_state

handle_message(message, session_state, usuarios, calls, fault, ask, now) ==
  LET initialised == InitialiseSession(session_state)
      current_state == initialised.conversation_state
      message_lower == Strip(Lower(message))
  IN  IF current_state = WELCOME
      THEN handle_welcome(message_lower, initialised, usuarios, calls)
      ELSE IF current_state = IDENTIFY_USER_TYPE
      THEN handle_user_type_identification(message_lower, initialised,
                                           usuarios, calls)
      ELSE IF current_state = EXISTING_USER_ID
      THEN handle_existing_user_id(message, initialised, usuarios, calls, fault)
      ELSE IF current_state = NEW_USER_ID
      THEN handle_new_user_id(message, initialised, usuarios, calls, fault)
      ELSE IF current_state = NEW_USER_NAME
      THEN handle_new_user_name(message, initialised, usuarios, calls)
      ELSE IF current_state = NEW_USER_PHONE
      THEN handle_new_user_phone(message, initialised, usuarios, calls)
      ELSE IF current_state = NEW_USER_EMAIL
      THEN handle_new_user_email(message, initialised, usuarios, calls,
                                 fault, now)
      ELSE IF current_state = CHAT_ACTIVE
      THEN handle_active_chat(message, initialised, usuarios, calls, ask)
      ELSE reset_conversation(initialised, usuarios, calls)

\* ------------------------------------------- the engine's own state

\* the stage of a call at which a provider, the file system or a library
\* raises; "none" when nothing does
EngineFaults ==
  {"none", "embeddings", "llm", "load", "metadata", "documents",
   "embedding", "save", "chain", "generation", "rmtree", "unlink"}

\* the fields after the assignments of QAEngine.__init__
NewEngine ==
  [embeddings |-> FALSE, llm |-> FALSE, vectorstore |-> None,
   qa_chain |-> None, documents_processed |-> FALSE,
   conversation_history |-> <<>>]

\* a cache directory: the index saved, if any, and whether metadata.json is
\* there
Cache(vectorstore_path, metadata_path) ==
  [vectorstore_path |-> vectorstore_path, metadata_path |-> metadata_path]

\* _create_qa_chain: nothing without a vectorstore; else the chain over it,
\* unless RetrievalQA.from_chain_type raises, as it does without an llm
create_qa_chain(self, fault) ==
  IF self.vectorstore = None THEN [self |-> self, exc |-> FALSE]
  ELSE IF fault = "chain" \/ ~self.llm THEN [self |-> self, exc |-> TRUE]
  ELSE [self |-> [self EXCEPT !.qa_chain = self.vectorstore], exc |-> FALSE]

\* _load_vectorstore: with both cache entries present the index is loaded,
\* the metadata read, documents_processed set and the chain created; an
\* exception at any of these steps ends the function with what was
\* assigned so far
load_vectorstore(self, files, fault) ==
  IF files.vectorstore_path = None \/ ~files.metadata_path
  THEN [self |-> self, ret |-> FALSE]
  ELSE IF fault = "load" THEN [self |-> self, ret |-> FALSE]
  ELSE LET loaded == [self EXCEPT !.vectorstore = files.vectorstore_path]
           marked == [loaded EXCEPT !.documents_processed = TRUE]
           chained == create_qa_chain(marked, fault)
       IN  IF fault = "metadata" THEN [self |-> loaded, ret |-> FALSE]
           ELSE IF chained.exc THEN [self |-> marked, ret |-> FALSE]
           ELSE [self |-> chained.self, ret |-> TRUE]

\* _initialize_components: the embeddings and llm handles, then the cache;
\* any exception is logged and ends it
initialize_components(self, settings, files, fault) ==
  IF ~settings.OPENAI_API_KEY \/ fault = "embeddings" THEN self
  ELSE IF fault = "llm" THEN [self EXCEPT !.embeddings = TRUE]
  ELSE load_vectorstore([self EXCEPT !.embeddings = TRUE, !.llm = TRUE],
                        files, fault).self

\* _save_vectorstore: the index and metadata.json are written; an exception
\* is logged
save_vectorstore(self, files, fault) ==
  IF fault = "save" THEN files ELSE Cache(self.vectorstore, TRUE)

\* process_documents: True at once when the documents are processed and no
\* reload is forced; else the documents are read and split, the index
\* built and saved and the chain created, and any exception gives False
process_documents(self, files, built, force_reload, fault) ==
  LET indexed == [self EXCEPT !.vectorstore = Some(built + 1)]
      saved == save_vectorstore(indexed, files, fault)
      chained == create_qa_chain(indexed, fault)
  IN  IF self.documents_processed /\ ~force_reload
      THEN [self |-> self, cache |-> files, builds |-> built, ret |-> TRUE,
            attempted |-> FALSE]
      ELSE IF fault = "documents"
      THEN [self |-> self, cache |-> files, builds |-> built, ret |-> FALSE,
            attempted |-> TRUE]
      ELSE IF ~self.embeddings \/ fault = "embedding"
      THEN [self |-> self, cache |-> files, builds |-> built, ret |-> FALSE,
            attempted |-> TRUE]
      ELSE IF chained.exc
      THEN [self |-> indexed, cache |-> saved, builds |-> built + 1,
            ret |-> FALSE, attempted |-> TRUE]
      ELSE [self |-> [chained.self EXCEPT !.documents_processed = TRUE],
            cache |-> saved, builds |-> built + 1, ret |-> TRUE,
            attempted |-> TRUE]

\* a retrieved chunk: a langchain Document
Doc(metadata, page_content) ==
  [metadata |-> metadata, page_content |-> page_content]

\* what the chain hands back: the answer and, with
\* return_source_documents, the retrieved chunks
ChainResult(answer, source_documents) ==
  [result |-> answer, source_documents |-> source_documents]

relevant_words ==
  <<<<"h", "o", "r", "a", "r", "i", "o">>,
    <<"p", "r", "o", "m", "o", "c", "i", "ó", "n">>,
    <<"d", "e", "s", "c", "u", "e", "n", "t", "o">>,
    <<"o", "f", "e", "r", "t", "a">>,
    <<"s", "u", "p", "e", "r", "m", "e", "r", "c", "a", "d", "o">>,
    <<"c", "l", "i", "e", "n", "t", "e">>>>

\* the bounds of the answer length that scores
AnswerMinLen == 50

AnswerMaxLen == 800

\* a mutant: the sum is returned without the cap
calculate_quality_score_uncapped(result, original_question) ==
  (IF "source_documents" \in DOMAIN result /\ result.source_documents # <<>>
   THEN IF Len(result.source_documents) > 1 THEN 60 ELSE 40
   ELSE 0)
  + (IF AnswerMinLen < Len(result.result) /\ Len(result.result) < AnswerMaxLen
     THEN 30 ELSE 0)
  + 5 * Cardinality({i \in 1..Len(relevant_words) :
                       /\ Contains(relevant_words[i], Lower(original_question))
                       /\ Contains(relevant_words[i], Lower(result.result))})

\* _calculate_quality_score, in hundredths: 40 for a non-empty
\* source_documents and 20 more for two or more, 30 for an answer longer
\* than 50 and shorter than 800 characters, 5 for each relevant word that is
\* a substring of both the lowered question and the lowered answer; at most
\* 100
calculate_quality_score(result, original_question) ==
  LET by_sources ==
        IF "source_documents" \in DOMAIN result /\ result.source_documents # <<>>
        THEN IF Len(result.source_documents) > 1 THEN 60 ELSE 40
        ELSE 0
      answer_length == Len(result.result)
      by_length ==
        IF AnswerMinLen < answer_length /\ answer_length < AnswerMaxLen
        THEN 30 ELSE 0
      answer_lower == Lower(result.result)
      question_lower == Lower(original_question)
      by_words ==
        5 * Cardinality({i \in 1..Len(relevant_words) :
                           /\ Contains(relevant_words[i], question_lower)
                           /\ Contains(relevant_words[i], answer_lower)})
      score == by_sources + by_length + by_words
  IN  IF score < 100 THEN score ELSE 100

\* str.split() as a set: the maximal runs without whitespace
Words(s) ==
  {SubSeq(s, p[1], p[2]) :
     p \in {q \in (1..Len(s)) \X (1..Len(s)) :
              /\ q[1] <= q[2]
              /\ \A k \in q[1]..q[2] : s[k] \notin Whitespace
              /\ (q[1] = 1 \/ s[q[1] - 1] \in Whitespace)
              /\ (q[2] = Len(s) \/ s[q[2] + 1] \in Whitespace)}}

\* a relevance is a fraction <<numerator, denominator>>
RelevanceThreshold == <<3, 10>>

Above(a, b) == a[1] * b[2] > b[1] * a[2]

Same(a, b) == a[1] * b[2] = b[1] * a[2]

\* dict.get(key, default) of a chunk's metadata
MetadataGet(doc, key, default) ==
  IF key \in DOMAIN doc.metadata THEN doc.metadata[key] ELSE default

HorarioQuestionWords ==
  {<<"h", "o", "r", "a", "r", "i", "o">>, <<"h", "o", "r", "a">>,
   <<"a", "b", "i", "e", "r", "t", "o">>, <<"c", "e", "r", "r", "a", "d", "o">>,
   <<"c", "u", "á", "n", "d", "o">>}

HorarioContentWords ==
  HorarioQuestionWords \ {<<"c", "u", "á", "n", "d", "o">>}

PromoContentWords ==
  {<<"p", "r", "o", "m", "o", "c", "i", "ó", "n">>,
   <<"d", "e", "s", "c", "u", "e", "n", "t", "o">>,
   <<"s", "u", "m", "a">>, <<"g", "a", "n", "a">>,
   <<"p", "u", "n", "t", "o", "s">>}

PromoQuestionWords == PromoContentWords \cup {<<"o", "f", "e", "r", "t", "a">>}

HelpQuestionWords ==
  {<<"a", "y", "u", "d", "a">>, <<"p", "u", "e", "d", "e", "n">>,
   <<"p", "u", "e", "d", "o">>, <<"q", "u", "é">>, <<"c", "ó", "m", "o">>}

\* the relevance ask_question gives a chunk for a question: by the kind of
\* the question, 1 for a chunk of the matching document, 1/2 for a chunk
\* that holds a word of the kind (3/10 for any chunk when the question asks
\* for help), and for a question of no kind the share of its words that
\* are words of the chunk
ContentRelevance(source, content_type, content, question_lower) ==
      IF AnyIn(HorarioQuestionWords, question_lower)
      THEN IF source = "horarios" \/ content_type = "horarios" THEN <<1, 1>>
           ELSE IF AnyIn(HorarioContentWords, content) THEN <<1, 2>>
           ELSE <<0, 1>>
      ELSE IF AnyIn(PromoQuestionWords, question_lower)
      THEN IF source = "suma_gana" \/ content_type = "promociones" THEN <<1, 1>>
           ELSE IF AnyIn(PromoContentWords, content) THEN <<1, 2>>
           ELSE <<0, 1>>
      ELSE IF AnyIn(HelpQuestionWords, question_lower)
      THEN IF source = "preguntas_frecuentes"
              \/ content_type = "preguntas_frecuentes"
           THEN <<1, 1>>
           ELSE <<3, 10>>
      ELSE LET question_words == Words(question_lower)
               content_words == Words(content)
               word_overlap == Cardinality(question_words \cap content_words)
           IN  IF word_overlap > 0
               THEN IF word_overlap < Cardinality(question_words)
                    THEN <<word_overlap, Cardinality(question_words)>>
                    ELSE <<1, 1>>
               ELSE <<0, 1>>

\* the relevance of a chunk, from its document name, its content type and
\* its lowered text
Relevance(doc, question_lower) ==
  CHOOSE relevance \in
    {ContentRelevance(MetadataGet(doc, "source", "documento"),
                      MetadataGet(doc, "content_type", "general"),
                      content, question) :
       content \in {Lower(doc.page_content)}, question \in {question_lower}} :
    TRUE

\* a mutant: the last chunk of a document decides its relevance
AddSource_last_chunk(before, source, relevance) ==
  IF ~Above(relevance, RelevanceThreshold) THEN before
  ELSE IF \A i \in 1..Len(before) : before[i][1] # source
  THEN Append(before, <<source, relevance>>)
  ELSE [i \in 1..Len(before) |->
          IF before[i][1] = source THEN <<source, relevance>> ELSE before[i]]

\* source_relevance[source] = max(source_relevance.get(source, 0),
\* relevance) for a chunk above the threshold; the dict is the sequence of
\* its items in insertion order
AddSource(before, source, relevance) ==
  LET at == {i \in 1..Len(before) : before[i][1] = source}
  IN  IF ~Above(relevance, RelevanceThreshold) THEN before
      ELSE IF at = {} THEN Append(before, <<source, relevance>>)
      ELSE [i \in 1..Len(before) |->
              IF i \in at /\ Above(relevance, before[i][2])
              THEN <<source, relevance>> ELSE before[i]]

\* the dict source_relevance after the first n chunks
RECURSIVE SourceRelevance(_, _, _)
SourceRelevance(source_documents, question_lower, n) ==
  IF n = 0 THEN <<>>
  ELSE CHOOSE after \in
         {AddSource(before,
                    MetadataGet(source_documents[n], "source", "documento"),
                    Relevance(source_documents[n], question_lower)) :
            before \in {SourceRelevance(source_documents, question_lower, n - 1)}} :
         TRUE

\* sorted(items, key = relevance, reverse = True): the sort is stable, so
\* names of equal relevance keep their order
SortedByRelevance(items) ==
  LET rank(i) == Cardinality({j \in 1..Len(items) :
                                \/ Above(items[j][2], items[i][2])
                                \/ /\ Same(items[j][2], items[i][2])
                                   /\ j < i})
  IN  [k \in 1..Len(items) |->
         items[CHOOSE i \in 1..Len(items) : rank(i) = k - 1][1]]

MaxSources == 2

\* the sources of an answer: none without the key source_documents, else
\* the names in source_relevance by falling relevance, cut to two
Sources(result, question) ==
  IF "source_documents" \notin DOMAIN result THEN <<>>
  ELSE CHOOSE sources \in
         {Take(SortedByRelevance(source_relevance), MaxSources) :
            source_relevance \in
              {SourceRelevance(result.source_documents, question_lower,
                               Len(result.source_documents)) :
                 question_lower \in {Lower(question)}}} :
         TRUE

\* the metadata of an answer
AnswerMeta(quality_score, sources_used, response_length) ==
  [quality_score |-> quality_score, sources_used |-> sources_used,
   response_length |-> response_length]

\* what ask_question hands back and leaves behind; `attempted` tells
\* whether the documents were processed in the call and `used` which index
\* answered, None when none did
Asked(self, files, built, answer, sources, metadata, exc, attempted, used) ==
  [self |-> self, cache |-> files, builds |-> built, answer |-> answer,
   sources |-> sources, metadata |-> metadata, exc |-> exc,
   attempted |-> attempted, used |-> used]

\* a mutant: the call of the chain is outside the try block
ask_question_uncaught(self, files, built, question, result, fault) ==
  LET p == IF self.qa_chain = None
           THEN process_documents(self, files, built, FALSE, fault)
           ELSE [self |-> self, cache |-> files, builds |-> built,
                 ret |-> TRUE, attempted |-> FALSE]
  IN  IF ~p.ret
      THEN Asked(p.self, p.cache, p.builds, TxtCannotProcess, <<>>,
                 EmptyDict, None, p.attempted, None)
      ELSE IF p.self.qa_chain = None \/ fault = "generation"
      THEN Asked(p.self, p.cache, p.builds, "", <<>>, EmptyDict,
                 Some("Exception"), p.attempted, None)
      ELSE LET answer == result.result
               quality_score == calculate_quality_score(result, question)
               sources == Sources(result, question)
           IN  Asked([p.self EXCEPT !.conversation_history =
                        Append(@, [question |-> question,
                                   answer |-> answer,
                                   sources |-> sources])],
                     p.cache, p.builds, answer, sources,
                     AnswerMeta(quality_score, Len(sources), Len(answer)),
                     None, p.attempted, p.self.qa_chain)

\* ask_question: without a chain the documents are processed first and a
\* False gives the first fallback; then the chain is called inside a try
\* block, whose except gives the second fallback with a zero score; the
\* answer of the chain is scored, its sources are chosen among the chunks,
\* and it is added to the history.  `result` is what the chain hands back
ask_question(self, files, built, question, result, fault) ==
  LET p == IF self.qa_chain = None
           THEN process_documents(self, files, built, FALSE, fault)
           ELSE [self |-> self, cache |-> files, builds |-> built,
                 ret |-> TRUE, attempted |-> FALSE]
  IN  IF ~p.ret
      THEN Asked(p.self, p.cache, p.builds, TxtCannotProcess, <<>>,
                 EmptyDict, None, p.attempted, None)
      ELSE IF p.self.qa_chain = None \/ fault = "generation"
      THEN Asked(p.self, p.cache, p.builds, TxtAskError, <<>>, Meta(0, 0),
                 None, p.attempted, None)
      ELSE LET answer == result.result
               quality_score == calculate_quality_score(result, question)
               sources == Sources(result, question)
           IN  Asked([p.self EXCEPT !.conversation_history =
                        Append(@, [question |-> question,
                                   answer |-> answer,
                                   sources |-> sources])],
                     p.cache, p.builds, answer, sources,
                     AnswerMeta(quality_score, Len(sources), Len(answer)),
                     None, p.attempted, p.self.qa_chain)

\* the memory as reset_vectorstore clears it
Cleared(self) ==
  [self EXCEPT !.vectorstore = None, !.qa_chain = None,
               !.documents_processed = FALSE]

\* reset_vectorstore: the index directory is removed if it exists, then
\* metadata.json if it exists, then the memory is cleared; an exception at
\* a removal is logged and ends the function there
reset_vectorstore(self, files, fault) ==
  IF files.vectorstore_path # None /\ fault = "rmtree"
  THEN [self |-> self, cache |-> files]
  ELSE IF files.metadata_path /\ fault = "unlink"
  THEN [self |-> self, cache |-> Cache(None, files.metadata_path)]
  ELSE [self |-> Cleared(self), cache |-> Cache(None, FALSE)]

\* --------------------------------------------------------- state machine

MsgEmpty == <<>>

MsgBlank == <<" ">>

MsgNew == <<"N", "u", "e", "v", "o", "!">>

MsgExisting == <<"y", "a", "!">>

MsgBoth == <<"y", "a", " ", "n", "u", "e", "v", "o", "!">>

MsgOther == <<"?">>

MsgId1 == <<"1", "2", "3", "4">>

MsgId2 == <<" ", "5", "6", "7", "8", "\n">>

MsgIdShort == <<"1", "2", "3">>

MsgName == <<"A", "n", "a">>

MsgPhone == <<"3", "0", "0", "1", "2", "3", "4", "5", "6", "7">>

MsgEmail == <<"a", "@", "b", ".", "c", "o">>

MsgEmailBad == <<"a", "@", "b">>

MsgCapability ==
  <<"¿", "Q", "u", "é", " ", "p", "u", "e", "d", "e", "s", " ", "h", "a", "c", "e", "r", "?">>

\* the messages a user types
Messages ==
  {MsgEmpty, MsgBlank, MsgNew, MsgExisting, MsgBoth, MsgOther, MsgId1, MsgId2,
   MsgIdShort, MsgName, MsgPhone, MsgEmail, MsgEmailBad, MsgCapability}

\* what another party of the store registers
OtherName == <<"L", "u", "z">>

OtherPhone == <<"6", "0", "0", "1", "2", "3", "4", "5", "6", "7">>

OtherEmail == <<"l", "@", "x", ".", "c", "o">>

OtherIds == {Strip(MsgId2)}

\* register_user calls of one session that are followed
MaxCalls == 2

\* values of CURRENT_TIMESTAMP
MaxClock == 1

VARIABLES
  session,   \* the caller's session dict (st.session_state.session_data)
  usuarios,  \* table usuarios, in insertion order
  now,       \* CURRENT_TIMESTAMP
  inbox,     \* the message being handed to handle_message, None between turns
  calls,     \* arguments of the register_user calls made for this session
  reply,     \* the reply of the last handle_message call
  raised,    \* the exception that left the last handle_message call, or None
  last,      \* the turn just handled: its message, and the session, the
             \* store fault and the engine outcome it met
  conversaciones,       \* table conversaciones, in insertion order
  metricas_diarias,     \* table metricas_diarias, in insertion order
  palabras_frecuentes,  \* table palabras_frecuentes, in insertion order
  engine,    \* the fields of the QAEngine instance
  cache,     \* what config.EMBEDDINGS_DIR holds on disk
  config,    \* what module config defines
  builds,    \* number of indexes FAISS.from_documents has built
  frames     \* the calls in progress, each with its local variables and
             \* its position in the code

\* the tables of the interaction log
tables == <<conversaciones, metricas_diarias, palabras_frecuentes>>

\* the retrieval engine and its surroundings
qa == <<engine, cache, config, builds>>

vars ==
  <<session, usuarios, now, inbox, calls, reply, raised, last, tables, qa,
    frames>>

\* nothing was logged
NoLog ==
  /\ conversaciones = <<>>
  /\ metricas_diarias = <<>>
  /\ palabras_frecuentes = <<>>

\* the engine is left out: its calls are represented by their outcomes
NoEngine ==
  /\ engine = EmptyDict
  /\ cache = EmptyDict
  /\ config = EmptyDict
  /\ builds = 0

Init ==
  /\ session = EmptyDict
  /\ usuarios = <<>>
  /\ now = 0
  /\ inbox = None
  /\ calls = <<>>
  /\ reply = <<>>
  /\ raised = None
  /\ last = None
  /\ NoLog
  /\ frames = <<>>
  /\ NoEngine

\* conversation_state of a session dict, WELCOME when the key is absent
StateOf(session_state) ==
  IF "conversation_state" \in DOMAIN session_state
  THEN session_state.conversation_state ELSE WELCOME

\* the store faults a turn can meet: those of the registry functions the
\* handler of the state calls
FaultsIn(session_state) ==
  IF StateOf(session_state) = EXISTING_USER_ID THEN {"none", "get_user"}
  ELSE IF StateOf(session_state) = NEW_USER_ID THEN {"none", "user_exists"}
  ELSE IF StateOf(session_state) = NEW_USER_EMAIL THEN StoreFaults
  ELSE {"none"}

\* the engine outcomes a turn can meet: only CHAT_ACTIVE asks the engine
AsksIn(session_state) ==
  IF StateOf(session_state) = CHAT_ACTIVE
  THEN AskOutcomes
  ELSE {Outcome(FALSE, TxtCannotProcess, <<>>, EmptyDict, FALSE)}

\* the user sends a message: process_user_message drops a blank one and is
\* about to call handle_message with any other
ProcessUserMessage ==
  /\ inbox = None
  /\ \E message \in Messages :
       /\ Strip(message) # <<>>
       /\ inbox' = Some(message)
  /\ reply' = <<>>
  /\ raised' = None
  /\ last' = None
  /\ UNCHANGED <<session, usuarios, now, calls>>
  /\ UNCHANGED <<tables, qa, frames>>

\* main() asks for the welcome: handle_message("", session_data) while the
\* session is empty
InitialWelcome ==
  /\ inbox = None
  /\ session = EmptyDict
  /\ inbox' = Some(MsgEmpty)
  /\ reply' = <<>>
  /\ raised' = None
  /\ last' = None
  /\ UNCHANGED <<session, usuarios, now, calls>>
  /\ UNCHANGED <<tables, qa, frames>>

\* any other caller of the public method, as the test-suite is: a blank
\* message whatever the session
DirectCall ==
  /\ inbox = None
  /\ \E message \in Messages :
       /\ Strip(message) = <<>>
       /\ inbox' = Some(message)
  /\ reply' = <<>>
  /\ raised' = None
  /\ last' = None
  /\ UNCHANGED <<session, usuarios, now, calls>>
  /\ UNCHANGED <<tables, qa, frames>>

\* one conversational turn: handle_message(message, session_data)
HandleMessage ==
  /\ inbox # None
  /\ \E fault \in FaultsIn(session), ask \in AsksIn(session) :
       \E r \in {handle_message(inbox[1], session, usuarios, calls, fault,
                                ask, now)} :
         /\ Len(r.calls) <= MaxCalls
         /\ session' = r.session
         /\ usuarios' = r.usuarios
         /\ calls' = r.calls
         /\ reply' = r.reply
         /\ raised' = r.exc
         /\ last' = Some([message |-> inbox[1],
                          state |-> StateOf(session),
                          fresh |-> "conversation_state" \notin DOMAIN session,
                          fault |-> fault,
                          ask |-> ask])
  /\ inbox' = None
  /\ UNCHANGED now
  /\ UNCHANGED <<tables, qa, frames>>

\* the "Reiniciar conversación" button: session_data = {}
Restart ==
  /\ inbox = None
  /\ session # EmptyDict
  /\ session' = EmptyDict
  /\ calls' = <<>>
  /\ reply' = <<>>
  /\ raised' = None
  /\ last' = None
  /\ UNCHANGED <<usuarios, now, inbox>>
  /\ UNCHANGED <<tables, qa, frames>>

\* another party of the store registers a user
OtherRegister ==
  \E identificacion \in OtherIds :
    \E r \in {register_user(usuarios, identificacion, OtherName, OtherPhone,
                            OtherEmail, now, "none")} :
        /\ r.ret
        /\ usuarios' = r.usuarios
        /\ UNCHANGED <<session, now, inbox, calls, reply, raised, last>>
        /\ UNCHANGED <<tables, qa, frames>>

\* another party of the store deactivates a user
OtherDeactivate ==
  \E identificacion \in OtherIds :
    \E r \in {deactivate_user(usuarios, identificacion)} :
        /\ r.ret
        /\ usuarios' = r.usuarios
        /\ UNCHANGED <<session, now, inbox, calls, reply, raised, last>>
        /\ UNCHANGED <<tables, qa, frames>>

\* time passes; the first registration is the origin of time
Tick ==
  /\ usuarios # <<>>
  /\ now < MaxClock
  /\ now' = now + 1
  /\ UNCHANGED <<session, usuarios, inbox, calls, reply, raised, last>>
  /\ UNCHANGED <<tables, qa, frames>>

Next ==
  \/ ProcessUserMessage
  \/ InitialWelcome
  \/ DirectCall
  \/ HandleMessage
  \/ Restart
  \/ OtherRegister
  \/ OtherDeactivate
  \/ Tick

Spec == Init /\ [][Next]_vars

\* ------------------------------------- sessions supplied by the caller

\* a conversation_state value outside ConversationState
InvalidState == "invalid_state"

\* the record of a user registered as MsgId1, MsgName, MsgPhone, MsgEmail
TestUser(activo) ==
  [id |-> 1, identificacion |-> MsgId1, nombre_completo |-> MsgName,
   telefono |-> MsgPhone, email |-> MsgEmail, fecha_registro |-> 0,
   activo |-> activo]

\* the sessions a caller builds itself, as the test-suite does: the empty
\* one, one that holds the state only, and a complete one
CallerSessions ==
  {EmptyDict}
    \cup {[conversation_state |-> state] :
            state \in {EXISTING_USER_ID, CHAT_ACTIVE, InvalidState}}
    \cup {[conversation_state |-> state,
           user_data |-> [identificacion |-> MsgId1],
           current_user |-> Some(UserDict(TestUser(TRUE)))] :
            state \in {CHAT_ACTIVE, InvalidState}}

\* the stores such a caller sets up
CallerStores == {<<>>, <<TestUser(TRUE)>>, <<TestUser(FALSE)>>}

InitCaller ==
  /\ session \in CallerSessions
  /\ usuarios \in CallerStores
  /\ now = 0
  /\ inbox = None
  /\ calls = <<>>
  /\ reply = <<>>
  /\ raised = None
  /\ last = None
  /\ NoLog
  /\ frames = <<>>
  /\ NoEngine

NextCaller ==
  \/ ProcessUserMessage
  \/ DirectCall
  \/ HandleMessage

SpecCaller == InitCaller /\ [][NextCaller]_vars

\* --------------------------------------------- the registry on its own

StoreIds == {MsgId1, Strip(MsgId2)}

\* name, phone and email of a register_user call
StoreValues == {<<MsgName, MsgPhone, MsgEmail>>, <<OtherName, OtherPhone, OtherEmail>>}

\* keyword arguments of an update_user call
StoreUpdates ==
  {[nombre_completo |-> OtherName],
   [telefono |-> OtherPhone, activo |-> FALSE],
   [activo |-> TRUE, campo_inexistente |-> MsgName]}

InitStore ==
  /\ session = EmptyDict
  /\ usuarios = <<>>
  /\ now = 0
  /\ inbox = None
  /\ calls = <<>>
  /\ reply = <<>>
  /\ raised = None
  /\ last = None
  /\ NoLog
  /\ frames = <<>>
  /\ NoEngine

\* registry.register_user(identificacion, nombre_completo, telefono, email)
RegisterUser ==
  /\ \E identificacion \in StoreIds, values \in StoreValues,
        fault \in {"none", "user_exists", "register_user"} :
       \E r \in {register_user(usuarios, identificacion, values[1],
                               values[2], values[3], now, fault)} :
         /\ usuarios' = r.usuarios
         /\ last' = Some([op |-> "register_user",
                          identificacion |-> identificacion,
                          values |-> values, ret |-> r.ret, exc |-> r.exc])
  /\ UNCHANGED <<session, now, inbox, calls, reply, raised>>
  /\ UNCHANGED <<tables, qa, frames>>

\* registry.deactivate_user(identificacion)
DeactivateUser ==
  /\ \E identificacion \in StoreIds :
       \E r \in {deactivate_user(usuarios, identificacion)} :
         /\ usuarios' = r.usuarios
         /\ last' = Some([op |-> "deactivate_user",
                          identificacion |-> identificacion, ret |-> r.ret])
  /\ UNCHANGED <<session, now, inbox, calls, reply, raised>>
  /\ UNCHANGED <<tables, qa, frames>>

\* registry.update_user(identificacion, **kwargs)
UpdateUser ==
  /\ \E identificacion \in StoreIds, kwargs \in StoreUpdates :
       \E r \in {update_user(usuarios, identificacion, kwargs)} :
         /\ usuarios' = r.usuarios
         /\ last' = Some([op |-> "update_user",
                          identificacion |-> identificacion,
                          kwargs |-> kwargs, ret |-> r.ret])
  /\ UNCHANGED <<session, now, inbox, calls, reply, raised>>
  /\ UNCHANGED <<tables, qa, frames>>

\* time passes between two calls
StoreTick ==
  /\ now < MaxClock
  /\ now' = now + 1
  /\ last' = None
  /\ UNCHANGED <<session, usuarios, inbox, calls, reply, raised>>
  /\ UNCHANGED <<tables, qa, frames>>

NextStore ==
  \/ RegisterUser
  \/ DeactivateUser
  \/ UpdateUser
  \/ StoreTick

SpecStore == InitStore /\ [][NextStore]_vars

\* -------------------------------------------- the interaction log alone

\* rows of conversaciones
MaxLog == 3

LogSession == <<"s", "1">>

LogMessage == <<"H", "o", "l", "a", " ", "d", "e", " ", "h", "o", "l", "a">>

LogReply == <<"o", "k">>

\* the query-type tags of the calls: none, a type, the type in capitals,
\* the type the docstring names, and a tag that holds SQL
LogTags ==
  {None, TipoHorarios,
   <<"H", "O", "R", "A", "R", "I", "O", "S">>,
   <<"g", "e", "n", "e", "r", "a", "l">>,
   <<"h", "o", "r", "a", "r", "i", "o", "s", " ", "=", " ", "5", " ", "-", "-">>}

LogCall(usuario_id, session_id, tipo_consulta) ==
  [usuario_id |-> usuario_id, session_id |-> session_id,
   mensaje_usuario |-> LogMessage, respuesta_bot |-> LogReply,
   tipo_consulta |-> tipo_consulta]

\* the calls: every tag for the anonymous user, and a known user and a
\* missing session id with one tag
LogCalls ==
  {LogCall(None, LogSession, tipo) : tipo \in LogTags}
    \cup {LogCall(Some(1), LogSession, TipoPromociones),
          LogCall(None, None, TipoHorarios)}

InitLog ==
  /\ session = EmptyDict
  /\ usuarios = <<>>
  /\ now = 0
  /\ inbox = None
  /\ calls = <<>>
  /\ reply = <<>>
  /\ raised = None
  /\ last = None
  /\ NoLog
  /\ frames = <<>>
  /\ NoEngine

\* registry.registrar_conversacion(usuario_id, session_id, mensaje_usuario,
\* respuesta_bot, tipo_consulta)
RegistrarConversacion ==
  /\ Len(conversaciones) < MaxLog
  /\ \E call \in LogCalls, fault \in LogFaults :
       \E r \in {registrar_conversacion(
                   Tables(conversaciones, metricas_diarias, palabras_frecuentes),
                   call, now, fault)} :
         /\ conversaciones' = r.db.conversaciones
         /\ metricas_diarias' = r.db.metricas_diarias
         /\ palabras_frecuentes' = r.db.palabras_frecuentes
         /\ last' = Some([op |-> "registrar_conversacion", call |-> call,
                          fault |-> fault, exc |-> r.exc])
  /\ UNCHANGED <<session, usuarios, now, inbox, calls, reply, raised, qa, frames>>

\* the next day begins
LogTick ==
  /\ now < MaxClock
  /\ now' = now + 1
  /\ last' = None
  /\ UNCHANGED <<session, usuarios, inbox, calls, reply, raised, tables, qa, frames>>

NextLog ==
  \/ RegistrarConversacion
  \/ LogTick

SpecLog == InitLog /\ [][NextLog]_vars

\* ---------------------------------------------- the engine on its own

\* indexes built in one run
MaxBuilds == 2

\* entries of conversation_history
MaxHistory == 2

\* an answer about the opening hours, 61 characters long
EngineAnswer ==
  <<"N", "u", "e", "s", "t", "r", "o", "s", " ", "h", "o", "r", "a", "r",
    "i", "o", "s", " ", "s", "o", "n", " ", "d", "e", " ", "l", "u", "n",
    "e", "s", " ", "a", " ", "v", "i", "e", "r", "n", "e", "s", " ", "d",
    "e", " ", "8", ":", "0", "0", " ", "A", "M", " ", "a", " ", "6", ":",
    "0", "0", " ", "P", "M">>

\* what the chain hands back: an answer with the chunk it came from, and
\* an empty answer without chunks
EngineResults ==
  {ChainResult(EngineAnswer,
               <<Doc([source |-> "horarios", content_type |-> "horarios"],
                     EngineAnswer)>>),
   ChainResult(<<>>, <<>>)}

EngineQuestions == {<<"h", "o", "r", "a", "r", "i", "o", "s", "?">>}

\* the cache directory met at construction: empty, complete, or left
\* without metadata.json
EngineCaches == {Cache(None, FALSE), Cache(Some(0), TRUE), Cache(Some(0), FALSE)}

\* config.OPENAI_API_KEY is set or not
EngineConfigs == {[OPENAI_API_KEY |-> TRUE], [OPENAI_API_KEY |-> FALSE]}

InitFaults == {"none", "embeddings", "llm", "load", "metadata", "chain"}

ProcessFaults == {"none", "documents", "embedding", "save", "chain"}

AskFaults == ProcessFaults \cup {"generation"}

ResetFaults == {"none", "rmtree", "unlink"}

\* QAEngine(): the state after construction
InitEngine ==
  /\ session = EmptyDict
  /\ usuarios = <<>>
  /\ now = 0
  /\ inbox = None
  /\ calls = <<>>
  /\ reply = <<>>
  /\ raised = None
  /\ NoLog
  /\ frames = <<>>
  /\ config \in EngineConfigs
  /\ cache \in EngineCaches
  /\ builds = 0
  /\ \E fault \in InitFaults :
       /\ engine = initialize_components(NewEngine, config, cache, fault)
       /\ last = Some([op |-> "__init__", fault |-> fault])

\* qa_engine.ask_question(question)
AskQuestion ==
  /\ \E question \in EngineQuestions, result \in EngineResults,
        fault \in AskFaults :
       \E r \in {ask_question(engine, cache, builds, question, result, fault)} :
         /\ r.builds <= MaxBuilds
         /\ Len(r.self.conversation_history) <= MaxHistory
         /\ engine' = r.self
         /\ cache' = r.cache
         /\ builds' = r.builds
         /\ last' = Some([op |-> "ask_question", fault |-> fault,
                          answer |-> r.answer, sources |-> r.sources,
                          metadata |-> r.metadata, exc |-> r.exc,
                          attempted |-> r.attempted, used |-> r.used])
  /\ UNCHANGED <<session, usuarios, now, inbox, calls, reply, raised, tables, config, frames>>

\* qa_engine.process_documents(force_reload)
ProcessDocuments ==
  /\ \E force_reload \in BOOLEAN, fault \in ProcessFaults :
       \E r \in {process_documents(engine, cache, builds, force_reload, fault)} :
         /\ r.builds <= MaxBuilds
         /\ engine' = r.self
         /\ cache' = r.cache
         /\ builds' = r.builds
         /\ last' = Some([op |-> "process_documents", fault |-> fault,
                          force_reload |-> force_reload, ret |-> r.ret])
  /\ UNCHANGED <<session, usuarios, now, inbox, calls, reply, raised, tables, config, frames>>

\* qa_engine.reset_vectorstore()
ResetVectorstore ==
  /\ \E fault \in ResetFaults :
       \E r \in {reset_vectorstore(engine, cache, fault)} :
         /\ engine' = r.self
         /\ cache' = r.cache
         /\ last' = Some([op |-> "reset_vectorstore", fault |-> fault])
  /\ UNCHANGED <<session, usuarios, now, inbox, calls, reply, raised, tables, config, builds, frames>>

NextEngine ==
  \/ AskQuestion
  \/ ProcessDocuments
  \/ ResetVectorstore

SpecEngine == InitEngine /\ [][NextEngine]_vars

\* ------------------------------------------- the validators on their own

\* the character c repeated n times
Rep(c, n) == [i \in 1..n |-> c]

\* what is put after a well-formed value: nothing, a newline, two
\* newlines, a letter, a space, a digit that is not ASCII
Suffixes == {<<>>, <<"\n">>, <<"\n", "\n">>, <<"a">>, <<" ">>, <<"U+0663">>}

\* identifiers around the two ends of the range of lengths
IdInputs ==
  {Rep("1", n) \o suffix : n \in 0..(IdMaxDigits + 2), suffix \in Suffixes}

\* phones around the length, with each kind of first digit
PhoneInputs ==
  {<<first>> \o Rep("0", n) \o suffix :
     first \in {"3", "6", "1"},
     n \in (PhoneDigits - 2)..PhoneDigits,
     suffix \in Suffixes}

\* names around the maximal length, with characters in and out of the
\* class
NameInputs ==
  {Rep("x", n) \o suffix :
     n \in {0, 1, 2, NameMaxLen - 1, NameMaxLen, NameMaxLen + 1},
     suffix \in {<<>>, <<"\n">>, <<"ñ">>, <<"ü">>, <<"Ü">>, <<" ">>, <<"1">>,
                 <<"É", "\t">>}}

\* emails put together from a local part, the "@", a domain, a TLD and an
\* end
EmailInputs ==
  {local \o at \o domain \o tld \o suffix :
     local \in {<<>>, <<"a">>, <<"a", " ">>, <<"a", "+", "1">>},
     at \in {<<>>, <<"@">>, <<"@", "@">>},
     domain \in {<<>>, <<"b">>, <<"b", "-", ".", "c">>},
     tld \in {<<>>, <<".", "c">>, <<".", "c", "o">>, <<".", "c", "1">>},
     suffix \in {<<>>, <<"\n">>, <<" ">>}}

InitValidate ==
  /\ session = EmptyDict
  /\ usuarios = <<>>
  /\ now = 0
  /\ inbox = None
  /\ calls = <<>>
  /\ reply = <<>>
  /\ raised = None
  /\ last = None
  /\ NoLog
  /\ frames = <<>>
  /\ NoEngine

\* the result of a validator call
Validated(op, value, result) ==
  /\ last' = Some([op |-> op, value |-> value, result |-> result])
  /\ UNCHANGED <<session, usuarios, now, inbox, calls, reply, raised, tables, qa, frames>>

\* UserValidator.validate_identificacion(identificacion)
ValidateIdentificacion ==
  \E value \in IdInputs :
    Validated("validate_identificacion", value, validate_identificacion(value))

\* UserValidator.validate_nombre_completo(nombre)
ValidateNombreCompleto ==
  \E value \in NameInputs :
    Validated("validate_nombre_completo", value, validate_nombre_completo(value))

\* UserValidator.validate_telefono(telefono)
ValidateTelefono ==
  \E value \in PhoneInputs :
    Validated("validate_telefono", value, validate_telefono(value))

\* UserValidator.validate_email(email)
ValidateEmail ==
  \E value \in EmailInputs :
    Validated("validate_email", value, validate_email(value))

NextValidate ==
  \/ ValidateIdentificacion
  \/ ValidateNombreCompleto
  \/ ValidateTelefono
  \/ ValidateEmail

SpecValidate == InitValidate /\ [][NextValidate]_vars

\* ---------------------------------- the score and the sources on their own

\* the six relevant words in one text, 55 characters long
SixWords ==
  <<"h", "o", "r", "a", "r", "i", "o", " ",
    "P", "R", "O", "M", "O", "C", "I", "Ó", "N", " ",
    "d", "e", "s", "c", "u", "e", "n", "t", "o", " ",
    "o", "f", "e", "r", "t", "a", " ",
    "s", "u", "p", "e", "r", "m", "e", "r", "c", "a", "d", "o", " ",
    "c", "l", "i", "e", "n", "t", "e">>

\* the text filled up with dots to n characters, if it is shorter
Pad(text, n) ==
  IF Len(text) < n THEN text \o Rep(".", n - Len(text)) ELSE text

\* answers with none, one, three and six of the relevant words, at the
\* lengths around the two bounds
ScoreAnswers ==
  {Pad(words, n) :
     words \in {<<>>, <<"N", "o", " ", "s", "é">>, SubSeq(SixWords, 1, 7),
                SubSeq(SixWords, 1, 27), SixWords},
     n \in {0, AnswerMinLen, AnswerMinLen + 1, AnswerMaxLen - 1, AnswerMaxLen}}

\* questions with none, one, three and six of the relevant words
ScoreQuestions ==
  {<<>>, <<"¿", "H", "O", "R", "A", "R", "I", "O", "S", "?">>,
   <<"o", "f", "e", "r", "t", "a", "s">>, SubSeq(SixWords, 1, 27), SixWords}

ChunkHorarios ==
  Doc([source |-> "horarios", content_type |-> "horarios"],
      <<"A", "b", "r", "i", "m", "o", "s", " ", "a", " ", "l", "a", "s", " ", "8">>)

ChunkFaq ==
  Doc([source |-> "preguntas_frecuentes", content_type |-> "preguntas_frecuentes"],
      <<"H", "o", "r", "a", "r", "i", "o", " ", "y", " ", "p", "a", "n">>)

\* a chunk without metadata: its document is "documento"
ChunkPlain ==
  Doc(EmptyDict,
      <<"P", "r", "e", "c", "i", "o", " ", "d", "e", "\n", "l", "e", "c", "h", "e">>)

\* a chunk of suma_gana that speaks of hours and discounts
ChunkSumaGanaHours ==
  Doc([source |-> "suma_gana"],
      <<"h", "o", "r", "a", " ", "d", "e", " ", "d", "e", "s", "c", "u", "e",
        "n", "t", "o">>)

\* a chunk of the questions document typed as hours
ChunkFaqHours ==
  Doc([source |-> "preguntas_frecuentes", content_type |-> "horarios"],
      <<"l", "e", "c", "h", "e">>)

Chunks ==
  {ChunkHorarios, ChunkFaq, ChunkPlain, ChunkSumaGanaHours, ChunkFaqHours}

\* chunks the retriever hands back for one question
MaxChunks == 3

ChunkLists == UNION {[1..n -> Chunks] : n \in 0..MaxChunks}

\* the results scored: without the key source_documents, and with lists of
\* none, one, two and three chunks
ScoreResults ==
  {[result |-> answer] : answer \in ScoreAnswers}
    \cup {ChainResult(answer, docs) :
            answer \in ScoreAnswers,
            docs \in {<<>>, <<ChunkHorarios>>, <<ChunkHorarios, ChunkFaq>>,
                      <<ChunkHorarios, ChunkFaq, ChunkPlain>>}}

\* questions of each kind: hours, promotions, help, and of no kind with
\* two of three, one of two, one of three and one of four words in
\* ChunkPlain or ChunkFaq; and the empty question
AnswerQuestions ==
  {<<"¿", "C", "u", "á", "l", " ", "H", "O", "R", "A", "R", "I", "O", "?">>,
   <<"d", "e", "s", "c", "u", "e", "n", "t", "o", " ", "h", "o", "y">>,
   <<"a", "y", "u", "d", "a">>,
   <<"p", "r", "e", "c", "i", "o", " ", "L", "e", "c", "h", "e", " ", "h", "o", "y">>,
   <<"p", "a", "n", "\t", "h", "o", "y">>,
   <<"p", "a", "n", " ", "h", "o", "y", " ", "y", "a">>,
   <<"p", "a", "n", " ", "h", "o", "y", " ", "y", "a", " ", "s", "i">>,
   <<>>}

AnswerResults ==
  {[result |-> EngineAnswer]}
    \cup {ChainResult(EngineAnswer, docs) : docs \in ChunkLists}

\* QAEngine() with the key configured and a complete cache: the index is
\* loaded and the chain is there
InitAnswer ==
  /\ session = EmptyDict
  /\ usuarios = <<>>
  /\ now = 0
  /\ inbox = None
  /\ calls = <<>>
  /\ reply = <<>>
  /\ raised = None
  /\ last = None
  /\ NoLog
  /\ frames = <<>>
  /\ config = [OPENAI_API_KEY |-> TRUE]
  /\ cache = Cache(Some(0), TRUE)
  /\ builds = 0
  /\ engine = initialize_components(NewEngine, config, cache, "none")

\* qa_engine._calculate_quality_score(result, original_question), once on
\* the new engine
CalculateQualityScore ==
  /\ last = None
  /\ \E result \in ScoreResults, question \in ScoreQuestions :
       last' = Some([op |-> "_calculate_quality_score", result |-> result,
                     question |-> question,
                     score |-> calculate_quality_score(result, question)])
  /\ UNCHANGED <<session, usuarios, now, inbox, calls, reply, raised, tables, qa, frames>>

\* qa_engine.ask_question(question), the first call of the new engine
AskFirstQuestion ==
  /\ last = None
  /\ \E question \in AnswerQuestions, result \in AnswerResults,
        fault \in {"none", "generation"} :
       \E r \in {ask_question(engine, cache, builds, question, result, fault)} :
         /\ engine' = r.self
         /\ cache' = r.cache
         /\ builds' = r.builds
         /\ last' = Some([op |-> "ask_question", fault |-> fault,
                          question |-> question, result |-> result,
                          answer |-> r.answer, sources |-> r.sources,
                          metadata |-> r.metadata, exc |-> r.exc,
                          attempted |-> r.attempted, used |-> r.used])
  /\ UNCHANGED <<session, usuarios, now, inbox, calls, reply, raised, tables, config, frames>>

NextScore == CalculateQualityScore

SpecScore == InitAnswer /\ [][NextScore]_vars

NextAnswer == AskFirstQuestion

SpecAnswer == InitAnswer /\ [][NextAnswer]_vars

\* ------------------------------------- two register_user calls at once

\* a register_user call in progress: `pc` is the statement it is about to
\* run ("user_exists", then "insert", then "done"), `raced` tells whether
\* its INSERT ran while the other call stood between its check and its
\* INSERT, `fault` the stage at which the store raised
RaceFrame(identificacion, values) ==
  [op |-> "register_user", identificacion |-> identificacion,
   values |-> values, pc |-> "user_exists", raced |-> FALSE,
   fault |-> "none", ret |-> None, exc |-> None]

\* the callers: two sessions with their own name, phone and email
RaceValues ==
  <<<<MsgName, MsgPhone, MsgEmail>>, <<OtherName, OtherPhone, OtherEmail>>>>

\* the store the calls meet: empty, with the record of another user, or
\* with a deactivated record of the first identifier
RaceStores ==
  {<<>>,
   <<NewRow(<<>>, Strip(MsgId2), OtherName, OtherPhone, OtherEmail, 0)>>,
   <<[NewRow(<<>>, MsgId1, OtherName, OtherPhone, OtherEmail, 0)
        EXCEPT !.activo = FALSE]>>}

InitRace ==
  /\ session = EmptyDict
  /\ usuarios \in RaceStores
  /\ now = 0
  /\ inbox = None
  /\ calls = <<>>
  /\ reply = <<>>
  /\ raised = None
  /\ last = None
  /\ NoLog
  /\ NoEngine
  /\ frames \in {<<RaceFrame(a, RaceValues[1]), RaceFrame(b, RaceValues[2])>> :
                   a \in StoreIds, b \in StoreIds}

\* the call leaves with a value or an exception
Leave(frame, ret, exc, fault) ==
  [frame EXCEPT !.pc = "done", !.ret = ret, !.exc = exc, !.fault = fault]

\* `if self.user_exists(identificacion): return False` of one call: a
\* connection of its own
RaceUserExists(t) ==
  /\ frames[t].pc = "user_exists"
  /\ \E fault \in {"none", "user_exists"} :
       frames' = [frames EXCEPT ![t] =
                    IF fault = "user_exists"
                    THEN Leave(@, None, Some(OperationalError), fault)
                    ELSE IF user_exists(usuarios, @.identificacion)
                    THEN Leave(@, Some(FALSE), None, fault)
                    ELSE [@ EXCEPT !.pc = "insert"]]
  /\ last' = Some([op |-> "user_exists", thread |-> t])
  /\ UNCHANGED <<session, usuarios, now, inbox, calls, reply, raised, tables, qa>>

\* the try block of one call: the INSERT and its commit are one write
\* transaction, which the database lock keeps apart from every other
RaceInsert(t) ==
  /\ frames[t].pc = "insert"
  /\ \E fault \in {"none", "register_user"} :
       \E r \in {register_user_insert(usuarios, frames[t].identificacion,
                                      frames[t].values[1], frames[t].values[2],
                                      frames[t].values[3], now, fault)} :
         /\ usuarios' = r.usuarios
         /\ frames' = [frames EXCEPT ![t] =
                         [Leave(@, IF r.exc = None THEN Some(r.ret) ELSE None,
                                r.exc, fault)
                            EXCEPT !.raced = frames[3 - t].pc = "insert"]]
  /\ last' = Some([op |-> "insert", thread |-> t])
  /\ UNCHANGED <<session, now, inbox, calls, reply, raised, tables, qa>>

\* time passes between two statements
RaceTick ==
  /\ now < MaxClock
  /\ now' = now + 1
  /\ last' = None
  /\ UNCHANGED <<session, usuarios, inbox, calls, reply, raised, tables, qa, frames>>

NextRace ==
  \/ \E t \in {1, 2} : RaceUserExists(t)
  \/ \E t \in {1, 2} : RaceInsert(t)
  \/ RaceTick

SpecRace == InitRace /\ [][NextRace]_vars

\* ---------------------------------------------------------------- claims

\* the step in which handle_message runs: the message is inbox[1], the
\* unprimed variables are what the call met and the primed ones what it left
Handled == inbox # None /\ inbox' = None

FreshSession ==
  [conversation_state |-> WELCOME, user_data |-> EmptyDict, current_user |-> None]

\* the next states the transition table lists for a state; the WELCOME row
\* is read as C3 settles it, so that what is left is about the outcomes
ListedNext(state) ==
  IF state = WELCOME
  THEN {WELCOME, IDENTIFY_USER_TYPE, NEW_USER_ID, EXISTING_USER_ID}
  ELSE IF state = IDENTIFY_USER_TYPE
  THEN {IDENTIFY_USER_TYPE, NEW_USER_ID, EXISTING_USER_ID}
  ELSE IF state = EXISTING_USER_ID
  THEN {EXISTING_USER_ID, IDENTIFY_USER_TYPE, CHAT_ACTIVE}
  ELSE IF state = NEW_USER_ID THEN {NEW_USER_ID, NEW_USER_NAME}
  ELSE IF state = NEW_USER_NAME THEN {NEW_USER_NAME, NEW_USER_PHONE}
  ELSE IF state = NEW_USER_PHONE THEN {NEW_USER_PHONE, NEW_USER_EMAIL}
  ELSE IF state = NEW_USER_EMAIL THEN {NEW_USER_EMAIL, CHAT_ACTIVE}
  ELSE IF state = CHAT_ACTIVE THEN {CHAT_ACTIVE}
  ELSE {WELCOME}

\* the reply holds the literal text
ReplyContains(r, text) == \E i \in 1..Len(r) : r[i] = Lit(text)

\* the validator a state applies to the stripped message
Validates(state, text) ==
  IF state \in {EXISTING_USER_ID, NEW_USER_ID} THEN validate_identificacion(text)
  ELSE IF state = NEW_USER_NAME THEN validate_nombre_completo(text)
  ELSE IF state = NEW_USER_PHONE THEN validate_telefono(text)
  ELSE validate_email(text)

\* C1: whatever the state, the message and the outcome of the store and of
\* the engine (a raised error included), handle_message returns a reply and
\* a session whose state is one the table lists for the state it met; no
\* exception leaves handle_message.
C1_Totality ==
  [][Handled =>
       /\ raised' = None
       /\ reply' # <<>>
       /\ StateOf(session') \in ListedNext(StateOf(session))]_vars

\* C2: in every session reached through handle_message calls, with the
\* store changed by other parties between the calls, current_user is set
\* exactly when the conversation state is CHAT_ACTIVE.
C2_IdentityIffActive ==
  (GetCurrentUser(session) # None) <=> (StateOf(session) = CHAT_ACTIVE)

\* an identified session whose user another party has since deactivated
C2_Witness ==
  /\ StateOf(session) = CHAT_ACTIVE
  /\ GetCurrentUser(session) # None
  /\ RowsOf(usuarios, GetCurrentUser(session)[1].identificacion) # {}
  /\ ~user_exists(usuarios, GetCurrentUser(session)[1].identificacion)

\* C3 as stated: from WELCOME every message leads to IDENTIFY_USER_TYPE
\* with the welcome text.
C3_AnyMessageWelcomes ==
  [][Handled /\ StateOf(session) = WELCOME =>
       /\ StateOf(session') = IDENTIFY_USER_TYPE
       /\ reply' = WELCOME_MESSAGE]_vars

\* C3: from WELCOME a blank message leads to IDENTIFY_USER_TYPE with the
\* welcome text; any other message is read as the answer to the welcome
\* question: a new-customer word leads to NEW_USER_ID, else an
\* existing-customer word leads to EXISTING_USER_ID, else the state stays
\* WELCOME and the reply asks to clarify.
C3_WelcomeOrIdentify ==
  [][Handled /\ StateOf(session) = WELCOME =>
       LET text == Strip(Lower(inbox[1]))
       IN  IF text = <<>>
           THEN /\ StateOf(session') = IDENTIFY_USER_TYPE
                /\ reply' = WELCOME_MESSAGE
           ELSE IF AnyIn(NewUserWords, text)
           THEN /\ StateOf(session') = NEW_USER_ID
                /\ reply' = <<Lit(TxtAskNewId)>>
           ELSE IF AnyIn(ExistingUserWords, text)
           THEN /\ StateOf(session') = EXISTING_USER_ID
                /\ reply' = <<Lit(TxtAskExistingId)>>
           ELSE /\ StateOf(session') = WELCOME
                /\ reply' = <<Lit(TxtClarify)>>]_vars

\* a message without keywords met WELCOME and left it WELCOME
C3_Witness ==
  /\ last # None
  /\ last[1].state = WELCOME
  /\ Strip(last[1].message) # <<>>
  /\ StateOf(session) = WELCOME
  /\ reply = <<Lit(TxtClarify)>>

\* C4: a session without the expected keys is first made a fresh WELCOME
\* session (state WELCOME, empty pending registration, no current_user) and
\* the message is processed on that; the empty message on {} gives the
\* welcome text, IDENTIFY_USER_TYPE, no current_user and an empty pending
\* registration.
C4_FreshSession ==
  [][Handled /\ "conversation_state" \notin DOMAIN session =>
       /\ \A ask \in AsksIn(FreshSession) :
            LET r == handle_message(inbox[1], FreshSession, usuarios, calls,
                                    "none", ask, now)
            IN  session' = r.session /\ reply' = r.reply /\ raised' = r.exc
       /\ {"conversation_state", "user_data", "current_user"}
            \subseteq DOMAIN session'
       /\ session'.user_data = EmptyDict
       /\ session'.current_user = None
       /\ inbox[1] = <<>> =>
            /\ reply' = WELCOME_MESSAGE
            /\ session'.conversation_state = IDENTIFY_USER_TYPE]_vars

\* the empty message met the session {} and left it initialised
C4_Witness ==
  /\ last # None
  /\ last[1].fresh
  /\ last[1].message = <<>>
  /\ reply = WELCOME_MESSAGE
  /\ session = [FreshSession EXCEPT !.conversation_state = IDENTIFY_USER_TYPE]

\* the four values a valid email completes, in the order of the call
Accepted(session_state, email) ==
  <<session_state.user_data.identificacion,
    session_state.user_data.nombre_completo,
    session_state.user_data.telefono,
    email>>

\* the turn is a valid email in NEW_USER_EMAIL
EmailAccepted ==
  /\ Handled
  /\ StateOf(session) = NEW_USER_EMAIL
  /\ validate_email(Strip(inbox[1])).valid

\* current_user is the record of the four accepted values
IsRecordOf(user, values) ==
  /\ user # None
  /\ user[1].identificacion = values[1]
  /\ user[1].nombre_completo = values[2]
  /\ user[1].telefono = values[3]
  /\ user[1].email = values[4]

\* C5 as stated: the valid email that completes a registration whose
\* identifier is not in the store, the store raising nothing, ends in
\* CHAT_ACTIVE with current_user populated, the only write call of the
\* sequence carrying the four accepted values in order.
C5_RegistrationAlwaysCompletes ==
  [][EmailAccepted /\ calls = <<>> /\ last'[1].fault = "none"
       /\ ~user_exists(usuarios, session.user_data.identificacion) =>
       /\ StateOf(session') = CHAT_ACTIVE
       /\ GetCurrentUser(session') # None
       /\ calls' = <<Accepted(session, Strip(inbox[1]))>>]_vars

\* C5: every valid email in NEW_USER_EMAIL issues exactly one write call,
\* carrying identifier, name, phone and email as accepted, and no other turn
\* issues one.  The turn ends in CHAT_ACTIVE with current_user the record of
\* those values when the store holds no record of the identifier, active or
\* deactivated, and raises nothing; otherwise the session stays in
\* NEW_USER_EMAIL without current_user and the store is unchanged.
C5_Registration ==
  [][Handled =>
       IF EmailAccepted
       THEN LET values == Accepted(session, Strip(inbox[1]))
            IN  /\ calls' = Append(calls, values)
                /\ IF RowsOf(usuarios, values[1]) = {}
                      /\ last'[1].fault = "none"
                   THEN /\ StateOf(session') = CHAT_ACTIVE
                        /\ IsRecordOf(GetCurrentUser(session'), values)
                        /\ Len(usuarios') = Len(usuarios) + 1
                        /\ raised' = None
                   ELSE /\ StateOf(session') = NEW_USER_EMAIL
                        /\ GetCurrentUser(session') = None
                        /\ RowsOf(usuarios, values[1]) # {} =>
                             usuarios' = usuarios
       ELSE calls' = calls]_vars

\* a registration completed by the only write call of the session
C5_Witness ==
  /\ last # None
  /\ last[1].state = NEW_USER_EMAIL
  /\ StateOf(session) = CHAT_ACTIVE
  /\ Len(calls) = 1
  /\ IsRecordOf(GetCurrentUser(session), calls[1])
  /\ user_exists(usuarios, calls[1][1])

\* C6: in NEW_USER_EMAIL with a valid email, when register_user returns
\* false the session stays in NEW_USER_EMAIL, current_user stays null and
\* the reply is the generic registration failure.
C6_WriteFailureStays ==
  [][EmailAccepted /\ last'[1].fault = "none"
       /\ RowsOf(usuarios, session.user_data.identificacion) # {} =>
       /\ StateOf(session') = NEW_USER_EMAIL
       /\ GetCurrentUser(session') = None
       /\ reply' = <<Lit(TxtRegisterFailed)>>
       /\ raised' = None
       /\ usuarios' = usuarios]_vars

\* a valid email was refused by the store
C6_Witness ==
  /\ last # None
  /\ last[1].state = NEW_USER_EMAIL
  /\ last[1].fault = "none"
  /\ validate_email(Strip(last[1].message)).valid
  /\ StateOf(session) = NEW_USER_EMAIL
  /\ reply = <<Lit(TxtRegisterFailed)>>

\* the states that validate a field
FieldStates ==
  {EXISTING_USER_ID, NEW_USER_ID, NEW_USER_NAME, NEW_USER_PHONE, NEW_USER_EMAIL}

\* C7: in each of the five field states a message that fails the state's
\* validation, and in NEW_USER_ID a well-formed identifier that is active
\* in the store, leaves the whole session unchanged, writes nothing to the
\* store and is answered with the validator's error, respectively the
\* already-registered message.
C7_RejectionChangesNothing ==
  [][Handled /\ StateOf(session) \in FieldStates =>
       LET text == Strip(inbox[1])
           v == Validates(StateOf(session), text)
       IN  /\ ~v.valid =>
                /\ session' = session
                /\ usuarios' = usuarios
                /\ calls' = calls
                /\ raised' = None
                /\ ReplyContains(reply', v.error[1])
           /\ (/\ v.valid
               /\ StateOf(session) = NEW_USER_ID
               /\ last'[1].fault = "none"
               /\ user_exists(usuarios, text)) =>
                /\ session' = session
                /\ usuarios' = usuarios
                /\ calls' = calls
                /\ raised' = None
                /\ ReplyContains(reply', TxtAlreadyRegistered)]_vars

\* a name was rejected while an identifier was pending
C7_Witness ==
  /\ last # None
  /\ last[1].state = NEW_USER_NAME
  /\ ~validate_nombre_completo(Strip(last[1].message)).valid
  /\ StateOf(session) = NEW_USER_NAME
  /\ DOMAIN session.user_data = {"identificacion"}
  /\ ReplyContains(reply, ErrNameFormat)

\* C8: in EXISTING_USER_ID a message whose stripped text is a well-formed
\* identifier of an active record leads to CHAT_ACTIVE with current_user
\* that record, the one with the identifier typed, and the reply greets by
\* the name of that record.
C8_FoundIsIdentified ==
  [][Handled /\ StateOf(session) = EXISTING_USER_ID
       /\ validate_identificacion(Strip(inbox[1])).valid
       /\ last'[1].fault = "none"
       /\ user_exists(usuarios, Strip(inbox[1])) =>
       /\ StateOf(session') = CHAT_ACTIVE
       /\ raised' = None
       /\ \E i \in RowsOf(usuarios, Strip(inbox[1])) :
            /\ usuarios[i].activo
            /\ GetCurrentUser(session') = Some(UserDict(usuarios[i]))
            /\ reply' = <<Lit(TxtHello), Txt(usuarios[i].nombre_completo),
                          Lit(TxtHelloEnd)>>]_vars

\* a user was identified in a store that holds another active record first
C8_Witness ==
  /\ last # None
  /\ last[1].state = EXISTING_USER_ID
  /\ StateOf(session) = CHAT_ACTIVE
  /\ Len(usuarios) = 2
  /\ usuarios[1].activo
  /\ usuarios[2].activo
  /\ GetCurrentUser(session) = Some(UserDict(usuarios[2]))

\* C9: in EXISTING_USER_ID a well-formed identifier without an active
\* record, never registered or deactivated, leads back to
\* IDENTIFY_USER_TYPE with current_user still null and a reply that offers
\* registration; nothing is raised.
C9_NotFoundGoesBack ==
  [][Handled /\ StateOf(session) = EXISTING_USER_ID
       /\ validate_identificacion(Strip(inbox[1])).valid
       /\ last'[1].fault = "none"
       /\ ~user_exists(usuarios, Strip(inbox[1])) =>
       /\ StateOf(session') = IDENTIFY_USER_TYPE
       /\ GetCurrentUser(session') = None
       /\ reply' = <<Lit(TxtNotFound)>>
       /\ raised' = None]_vars

\* the identifier of a deactivated record was not found
C9_Witness ==
  /\ last # None
  /\ last[1].state = EXISTING_USER_ID
  /\ RowsOf(usuarios, Strip(last[1].message)) # {}
  /\ ~user_exists(usuarios, Strip(last[1].message))
  /\ StateOf(session) = IDENTIFY_USER_TYPE
  /\ reply = <<Lit(TxtNotFound)>>

\* C10 as stated: in IDENTIFY_USER_TYPE a new-customer word leads to
\* NEW_USER_ID, an existing-customer word leads to EXISTING_USER_ID, none of
\* them leaves IDENTIFY_USER_TYPE with the clarification, and there is no
\* other next state.
C10_KeywordsDecide ==
  [][Handled /\ StateOf(session) = IDENTIFY_USER_TYPE =>
       LET text == Strip(Lower(inbox[1]))
       IN  /\ AnyIn(NewUserWords, text) => StateOf(session') = NEW_USER_ID
           /\ AnyIn(ExistingUserWords, text) =>
                StateOf(session') = EXISTING_USER_ID
           /\ ~AnyIn(NewUserWords \cup ExistingUserWords, text) =>
                /\ StateOf(session') = IDENTIFY_USER_TYPE
                /\ reply' = <<Lit(TxtClarify)>>
           /\ StateOf(session') \in
                {NEW_USER_ID, EXISTING_USER_ID, IDENTIFY_USER_TYPE}]_vars

\* C10: in IDENTIFY_USER_TYPE a new-customer word leads to NEW_USER_ID,
\* also when an existing-customer word is there too; an existing-customer
\* word without a new-customer word leads to EXISTING_USER_ID; none of them
\* leaves IDENTIFY_USER_TYPE with the clarification; there is no other next
\* state.
C10_NewWordsFirst ==
  [][Handled /\ StateOf(session) = IDENTIFY_USER_TYPE =>
       LET text == Strip(Lower(inbox[1]))
       IN  /\ AnyIn(NewUserWords, text) =>
                /\ StateOf(session') = NEW_USER_ID
                /\ reply' = <<Lit(TxtAskNewId)>>
           /\ (AnyIn(ExistingUserWords, text) /\ ~AnyIn(NewUserWords, text)) =>
                /\ StateOf(session') = EXISTING_USER_ID
                /\ reply' = <<Lit(TxtAskExistingId)>>
           /\ ~AnyIn(NewUserWords \cup ExistingUserWords, text) =>
                /\ StateOf(session') = IDENTIFY_USER_TYPE
                /\ reply' = <<Lit(TxtClarify)>>
           /\ StateOf(session') \in
                {NEW_USER_ID, EXISTING_USER_ID, IDENTIFY_USER_TYPE}
           /\ raised' = None]_vars

\* a message with words of both kinds started a registration
C10_Witness ==
  /\ last # None
  /\ last[1].state = IDENTIFY_USER_TYPE
  /\ AnyIn(NewUserWords, Strip(Lower(last[1].message)))
  /\ AnyIn(ExistingUserWords, Strip(Lower(last[1].message)))
  /\ StateOf(session) = NEW_USER_ID

\* the turn met CHAT_ACTIVE with a message that is not a capability question
AnswerTurn ==
  /\ Handled
  /\ StateOf(session) = CHAT_ACTIVE
  /\ ~is_bot_capability_question(Strip(Lower(inbox[1])))

\* the suggestion bullets of a reply
Bullets(r) == {i \in 1..Len(r) : r[i] = Lit("U+2022 ")}

\* C12: in CHAT_ACTIVE, whatever the message and the outcome of the engine,
\* handle_message leaves the state CHAT_ACTIVE and leaves current_user and
\* the pending registration as they were, also after the store has changed
\* that user.
C12_ActiveIsTerminal ==
  [][Handled /\ StateOf(session) = CHAT_ACTIVE =>
       /\ StateOf(session') = CHAT_ACTIVE
       /\ GetCurrentUser(session') = GetCurrentUser(session)
       /\ session' = session
       /\ usuarios' = usuarios
       /\ raised' = None]_vars

\* a turn in CHAT_ACTIVE of a user another party has deactivated
C12_Witness ==
  /\ last # None
  /\ last[1].state = CHAT_ACTIVE
  /\ StateOf(session) = CHAT_ACTIVE
  /\ GetCurrentUser(session) # None
  /\ RowsOf(usuarios, GetCurrentUser(session)[1].identificacion) # {}
  /\ ~user_exists(usuarios, GetCurrentUser(session)[1].identificacion)
  /\ reply # <<>>

\* C13: in CHAT_ACTIVE, for a message that is not a capability question
\* and an engine that answers: below a quality score of 0.6 the reply holds
\* the "you might also ask" section with one or two suggestions; from 0.6
\* on it holds no such section and the suggestion generator is not called,
\* so that a failing generator does not change the reply.
C13_SuggestionsBelowThreshold ==
  [][AnswerTurn /\ ~last'[1].ask.raises =>
       LET ask == last'[1].ask
       IN  IF QualityOf(ask.metadata) < QualityThreshold
           THEN ~ask.suggest_raises =>
                  /\ reply'[1] = Lit(ask.answer)
                  /\ ReplyContains(reply', TxtSuggestions)
                  /\ Cardinality(Bullets(reply')) \in 1..2
           ELSE /\ reply'[1] = Lit(ask.answer)
                /\ ~ReplyContains(reply', TxtSuggestions)
                /\ Bullets(reply') = {}]_vars

\* an answer scored just below the threshold got its two suggestions
C13_Witness ==
  /\ last # None
  /\ last[1].state = CHAT_ACTIVE
  /\ ~last[1].ask.raises
  /\ QualityOf(last[1].ask.metadata) = QualityThreshold - 1
  /\ ReplyContains(reply, TxtSuggestions)
  /\ Cardinality(Bullets(reply)) = 2

\* C14: an exception raised while the answer is computed in CHAT_ACTIVE, by
\* the engine call or by the suggestion generator, is caught inside
\* handle_message: the reply is the generic apology and the session is
\* returned unchanged.
C14_AnswerErrorsAreCaught ==
  [][(AnswerTurn
        /\ (last'[1].ask.raises
            \/ (QualityOf(last'[1].ask.metadata) < QualityThreshold
                /\ last'[1].ask.suggest_raises))) =>
       /\ reply' = <<Lit(TxtChatError)>>
       /\ session' = session
       /\ raised' = None]_vars

\* the suggestion generator failed and the user got the apology
C14_Witness ==
  /\ last # None
  /\ last[1].state = CHAT_ACTIVE
  /\ ~last[1].ask.raises
  /\ last[1].ask.suggest_raises
  /\ reply = <<Lit(TxtChatError)>>
  /\ StateOf(session) = CHAT_ACTIVE
  /\ raised = None

\* the order of the states; the two identifier states are at the same level
Rank(state) ==
  IF state = WELCOME THEN 0
  ELSE IF state = IDENTIFY_USER_TYPE THEN 1
  ELSE IF state \in {EXISTING_USER_ID, NEW_USER_ID} THEN 2
  ELSE IF state = NEW_USER_NAME THEN 3
  ELSE IF state = NEW_USER_PHONE THEN 4
  ELSE IF state = NEW_USER_EMAIL THEN 5
  ELSE 6

\* the states a step may lead to without skipping a state of its branch
Forward(state) ==
  IF state = WELCOME
  THEN {WELCOME, IDENTIFY_USER_TYPE, EXISTING_USER_ID, NEW_USER_ID}
  ELSE IF state = IDENTIFY_USER_TYPE
  THEN {IDENTIFY_USER_TYPE, EXISTING_USER_ID, NEW_USER_ID}
  ELSE IF state = EXISTING_USER_ID THEN {EXISTING_USER_ID, CHAT_ACTIVE}
  ELSE IF state = NEW_USER_ID THEN {NEW_USER_ID, NEW_USER_NAME}
  ELSE IF state = NEW_USER_NAME THEN {NEW_USER_NAME, NEW_USER_PHONE}
  ELSE IF state = NEW_USER_PHONE THEN {NEW_USER_PHONE, NEW_USER_EMAIL}
  ELSE IF state = NEW_USER_EMAIL THEN {NEW_USER_EMAIL, CHAT_ACTIVE}
  ELSE {CHAT_ACTIVE}

\* C11: every handle_message step keeps the state or advances it in the
\* order WELCOME < IDENTIFY_USER_TYPE < {EXISTING_USER_ID, NEW_USER_ID} <
\* NEW_USER_NAME < NEW_USER_PHONE < NEW_USER_EMAIL < CHAT_ACTIVE without
\* skipping a state of its branch, but for two backward edges:
\* EXISTING_USER_ID to IDENTIFY_USER_TYPE on a well-formed identifier that
\* is not found, and the reset to WELCOME from an unrecognized state.  A
\* session that is in a registration state never goes back to
\* IDENTIFY_USER_TYPE or EXISTING_USER_ID.
C11_ForwardProgress ==
  [][Handled =>
       LET before == StateOf(session)
           after == StateOf(session')
       IN  IF before \notin ConversationState
           THEN after = WELCOME
           ELSE \/ /\ after \in Forward(before)
                   /\ Rank(after) >= Rank(before)
                \/ /\ before = EXISTING_USER_ID
                   /\ after = IDENTIFY_USER_TYPE
                   /\ validate_identificacion(Strip(inbox[1])).valid
                   /\ ~user_exists(usuarios, Strip(inbox[1]))]_vars

\* the backward edge from EXISTING_USER_ID was taken
C11_Witness ==
  /\ last # None
  /\ last[1].state = EXISTING_USER_ID
  /\ StateOf(session) = IDENTIFY_USER_TYPE
  /\ raised = None

\* C15: a session whose conversation_state is present and is none of the 8
\* values is reset: state WELCOME, empty pending registration, no
\* current_user, and the reply is the apology followed by the welcome text,
\* whatever the message says.
C15_UnknownStateResets ==
  [][Handled /\ "conversation_state" \in DOMAIN session
       /\ session.conversation_state \notin ConversationState =>
       /\ {"conversation_state", "user_data", "current_user"}
            \subseteq DOMAIN session'
       /\ session'.conversation_state = WELCOME
       /\ session'.user_data = EmptyDict
       /\ session'.current_user = None
       /\ reply' = <<Lit(TxtResetApology)>> \o WELCOME_MESSAGE
       /\ usuarios' = usuarios
       /\ calls' = calls
       /\ raised' = None]_vars

\* a complete session in an unknown state was reset by a message that
\* would have started a registration
C15_Witness ==
  /\ last # None
  /\ last[1].state = InvalidState
  /\ AnyIn(NewUserWords, Strip(Lower(last[1].message)))
  /\ session = FreshSession
  /\ reply = <<Lit(TxtResetApology)>> \o WELCOME_MESSAGE

\* C16: the pending registration is empty in a session that has just
\* reached CHAT_ACTIVE through a successful registration and in a session
\* that has just been reset to WELCOME.
C16_PendingCleared ==
  [][(Handled
        /\ \/ /\ StateOf(session) = NEW_USER_EMAIL
              /\ StateOf(session') = CHAT_ACTIVE
           \/ /\ StateOf(session) \notin ConversationState
              /\ StateOf(session') = WELCOME) =>
       session'.user_data = EmptyDict]_vars

\* the step is a call of the registry function op
StoreCall(op) == last' # None /\ last'[1].op = op

\* no two rows share an identifier
UniqueIds(store) ==
  \A i, j \in 1..Len(store) :
    store[i].identificacion = store[j].identificacion => i = j

\* C17: register_user on an identifier without a record returns True, and
\* get_user right after it returns a record whose identifier, name, phone
\* and email are the arguments.
C17_RegisterThenGet ==
  [][(StoreCall("register_user") /\ last'[1].exc = None
        /\ RowsOf(usuarios, last'[1].identificacion) = {}) =>
       LET user == get_user(usuarios', last'[1].identificacion)
       IN  /\ last'[1].ret
           /\ Len(usuarios') = Len(usuarios) + 1
           /\ IsRecordOf(user, <<last'[1].identificacion>> \o last'[1].values)
           /\ user[1].fecha_registro = now]_vars

\* a second user was registered and is fetched with the values passed
C17_Witness ==
  /\ last # None
  /\ last[1].op = "register_user"
  /\ last[1].ret
  /\ Len(usuarios) = 2
  /\ IsRecordOf(get_user(usuarios, last[1].identificacion),
                <<last[1].identificacion>> \o last[1].values)

\* C18: register_user on an identifier that is active returns False and
\* leaves every record and the number of records as they were, whatever the
\* values passed and however often it is repeated.
C18_RejectionChangesNothing ==
  [][(StoreCall("register_user") /\ last'[1].exc = None
        /\ user_exists(usuarios, last'[1].identificacion)) =>
       /\ ~last'[1].ret
       /\ usuarios' = usuarios]_vars

\* an active identifier was registered again with other values
C18_Witness ==
  /\ last # None
  /\ last[1].op = "register_user"
  /\ ~last[1].ret
  /\ last[1].exc = None
  /\ user_exists(usuarios, last[1].identificacion)
  /\ ~IsRecordOf(get_user(usuarios, last[1].identificacion),
                 <<last[1].identificacion>> \o last[1].values)

\* C19: the store never holds two records of one identifier, active or
\* deactivated; register_user on an identifier whose record is deactivated
\* returns False and creates nothing, so that no deactivated identifier has
\* an active record.
C19_OneRecordPerIdentifier ==
  [][/\ UniqueIds(usuarios')
     /\ \A i \in 1..Len(usuarios') :
          ~usuarios'[i].activo =>
            ~user_exists(usuarios', usuarios'[i].identificacion)
     /\ (/\ StoreCall("register_user")
         /\ last'[1].exc = None
         /\ RowsOf(usuarios, last'[1].identificacion) # {}
         /\ ~user_exists(usuarios, last'[1].identificacion)) =>
          /\ ~last'[1].ret
          /\ usuarios' = usuarios]_vars

\* a deactivated identifier was registered again and refused
C19_Witness ==
  /\ last # None
  /\ last[1].op = "register_user"
  /\ ~last[1].ret
  /\ last[1].exc = None
  /\ Cardinality(RowsOf(usuarios, last[1].identificacion)) = 1
  /\ ~user_exists(usuarios, last[1].identificacion)

\* the identifiers get_all_users lists
ListedIds(store) ==
  {get_all_users(store)[p].identificacion : p \in 1..Len(get_all_users(store))}

\* C20: deactivate_user on an active identifier returns True; afterwards
\* user_exists is False, get_user is null, get_all_users leaves the
\* identifier out and get_user_count is one lower, while the record stays
\* in the table.  On an unknown or deactivated identifier it returns False
\* and changes nothing.  No call of the registry makes a deactivated record
\* active again.
C20_Deactivation ==
  [][/\ StoreCall("deactivate_user") =>
          LET identificacion == last'[1].identificacion
          IN  IF user_exists(usuarios, identificacion)
              THEN /\ last'[1].ret
                   /\ ~user_exists(usuarios', identificacion)
                   /\ get_user(usuarios', identificacion) = None
                   /\ identificacion \notin ListedIds(usuarios')
                   /\ get_user_count(usuarios') = get_user_count(usuarios) - 1
                   /\ Len(usuarios') = Len(usuarios)
                   /\ \A i \in 1..Len(usuarios) :
                        usuarios'[i] =
                          IF usuarios[i].identificacion = identificacion
                          THEN [usuarios[i] EXCEPT !.activo = FALSE]
                          ELSE usuarios[i]
              ELSE /\ ~last'[1].ret
                   /\ usuarios' = usuarios
     /\ \A i \in 1..Len(usuarios) :
          ~usuarios[i].activo =>
            /\ i <= Len(usuarios')
            /\ usuarios'[i].identificacion = usuarios[i].identificacion
            /\ ~usuarios'[i].activo]_vars

\* one of two users was deactivated: the other is the only one listed
C20_Witness ==
  /\ last # None
  /\ last[1].op = "deactivate_user"
  /\ last[1].ret
  /\ Len(usuarios) = 2
  /\ get_user_count(usuarios) = 1
  /\ last[1].identificacion \notin ListedIds(usuarios)
  /\ RowsOf(usuarios, last[1].identificacion) # {}

\* the columns of usuarios that update_user may write
Updatable == {"nombre_completo", "telefono", "email"}

\* C21: update_user writes only the name, phone and email of the active
\* record of the identifier, taken from the keywords of those names: no
\* record is removed, and id, identifier, registration timestamp and active
\* flag of every record stay; other keywords are ignored; with no such
\* keyword, or on an unknown or deactivated identifier, it returns False
\* and changes nothing.
C21_UpdateFrame ==
  [][StoreCall("update_user") =>
       LET identificacion == last'[1].identificacion
           kwargs == last'[1].kwargs
           fields == DOMAIN kwargs \cap Updatable
       IN  /\ Len(usuarios') = Len(usuarios)
           /\ \A i \in 1..Len(usuarios) :
                /\ usuarios'[i].id = usuarios[i].id
                /\ usuarios'[i].identificacion = usuarios[i].identificacion
                /\ usuarios'[i].fecha_registro = usuarios[i].fecha_registro
                /\ usuarios'[i].activo = usuarios[i].activo
                /\ \A f \in Updatable :
                     usuarios'[i][f] =
                       IF /\ usuarios[i].identificacion = identificacion
                          /\ usuarios[i].activo
                          /\ f \in fields
                       THEN kwargs[f]
                       ELSE usuarios[i][f]
           /\ last'[1].ret = (user_exists(usuarios, identificacion) /\ fields # {})
           /\ ~last'[1].ret => usuarios' = usuarios]_vars

\* an update with a keyword outside the allow-list changed the phone of one
\* of two users
C21_Witness ==
  /\ last # None
  /\ last[1].op = "update_user"
  /\ last[1].ret
  /\ "activo" \in DOMAIN last[1].kwargs
  /\ Len(usuarios) = 2
  /\ \E i \in 1..2 :
       /\ usuarios[i].identificacion = last[1].identificacion
       /\ usuarios[i].activo
       /\ usuarios[i].telefono = last[1].kwargs.telefono
       /\ usuarios[3 - i].telefono # last[1].kwargs.telefono

\* sum of a column of metricas_diarias
RECURSIVE SumColumn(_, _)
SumColumn(tabla, column) ==
  IF tabla = <<>> THEN 0
  ELSE Head(tabla)[column] + SumColumn(Tail(tabla), column)

\* number of log rows that carry the tag
Tagged(log, tipo) ==
  Cardinality({i \in 1..Len(log) : log[i].tipo_consulta = tipo})

\* the step is a call of registrar_conversacion
LogStep == last' # None /\ last'[1].op = "registrar_conversacion"

\* C22 (first half): the log is append-only with one row per call that
\* returns, and a call that raises leaves the three tables as they were.
C22_OneRowPerCall ==
  [][LogStep =>
       IF last'[1].exc = None
       THEN /\ Len(conversaciones') = Len(conversaciones) + 1
            /\ SubSeq(conversaciones', 1, Len(conversaciones)) = conversaciones
            /\ conversaciones'[Len(conversaciones')].tipo_consulta
                 = last'[1].call.tipo_consulta
            /\ conversaciones'[Len(conversaciones')].usuario_id
                 = last'[1].call.usuario_id
       ELSE UNCHANGED tables]_vars

C22_Witness ==
  /\ last # None
  /\ last[1].op = "registrar_conversacion"
  /\ last[1].exc # None
  /\ last[1].fault = "none"
  /\ last[1].call.session_id # None
  /\ Len(conversaciones) = 2

\* C22: after any sequence of registrar_conversacion calls the
\* total_mensajes of the daily rows add up to the number of log rows, and
\* each per-type counter adds up to the number of log rows carrying that
\* type as their tag.
C22_RollupMatchesLog ==
  /\ SumColumn(metricas_diarias, "total_mensajes") = Len(conversaciones)
  /\ SumColumn(metricas_diarias, "consultas_horarios")
       = Tagged(conversaciones, TipoHorarios)
  /\ SumColumn(metricas_diarias, "consultas_promociones")
       = Tagged(conversaciones, TipoPromociones)
  /\ SumColumn(metricas_diarias, "consultas_generales")
       = Tagged(conversaciones, TipoGenerales)

\* the step is a call of the engine method op
EngineCall(op) == last' # None /\ last'[1].op = op

\* the two apologies of ask_question
Fallbacks == {TxtCannotProcess, TxtAskError}

\* C23: ask_question raises nothing and hands back its triple whatever
\* fails and whatever the state left by the construction; when no index
\* answered, the answer is an apology, sources is empty and the quality
\* score is zero or absent.
C23_AskNeverRaises ==
  [][EngineCall("ask_question") =>
       /\ last'[1].exc = None
       /\ (last'[1].used = None =>
            /\ last'[1].answer \in Fallbacks
            /\ last'[1].sources = <<>>
            /\ \/ "quality_score" \notin DOMAIN last'[1].metadata
               \/ last'[1].metadata.quality_score = 0)]_vars

\* the generation failed in an engine that had its chain
C23_Witness ==
  /\ last # None
  /\ last[1].op = "ask_question"
  /\ last[1].fault = "generation"
  /\ engine.qa_chain # None
  /\ last[1].answer = TxtAskError
  /\ last[1].metadata.quality_score = 0

\* C24: every failure of a question reaches the caller as one and the same
\* message: two calls of ask_question in a row that no index answered give
\* the same answer.
C24_OneFallbackMessage ==
  [][(/\ last # None
      /\ last[1].op = "ask_question"
      /\ last[1].used = None
      /\ EngineCall("ask_question")
      /\ last'[1].used = None) =>
       last'[1].answer = last[1].answer]_vars

\* C24 (no retry): one call of ask_question builds at most one index.
C24_NoRetry ==
  [][EngineCall("ask_question") => builds' <= builds + 1]_vars

\* C25: a question that finds the engine without a chain makes it process
\* the documents again, and when the key is configured and nothing fails
\* during the call, an index answers it.
C25_LazyReprocessing ==
  [][(EngineCall("ask_question") /\ engine.qa_chain = None) =>
       /\ last'[1].attempted
       /\ (config.OPENAI_API_KEY /\ last'[1].fault = "none") =>
            last'[1].used # None]_vars

\* C25 (the part that holds): when the processing fails the first fallback
\* is returned, and an engine whose documents are not marked as processed
\* processes them at every question until it succeeds.
C25_RetriesWhileUnprocessed ==
  [][(/\ EngineCall("ask_question")
      /\ engine.qa_chain = None
      /\ ~engine.documents_processed) =>
       /\ last'[1].attempted
       /\ (engine.embeddings /\ engine.llm /\ last'[1].fault \in {"none", "save"})
            => last'[1].used = Some(builds')
       /\ (last'[1].used = None /\ last'[1].fault # "generation")
            => last'[1].answer = TxtCannotProcess]_vars

\* C26: reset_vectorstore leaves no index directory and no metadata.json
\* and clears vectorstore, qa_chain and documents_processed; the question
\* that follows is answered by an index built after the reset, or by none.
C26_ResetForcesRebuild ==
  [][/\ EngineCall("reset_vectorstore") =>
          /\ cache' = Cache(None, FALSE)
          /\ engine'.vectorstore = None
          /\ engine'.qa_chain = None
          /\ ~engine'.documents_processed
     /\ (/\ last # None
         /\ last[1].op = "reset_vectorstore"
         /\ EngineCall("ask_question")) =>
          last'[1].used \in {None, Some(builds + 1)}]_vars

\* C26 (the part that holds): the same when neither removal raises.
C26_ResetWithoutFault ==
  [][/\ (EngineCall("reset_vectorstore") /\ last'[1].fault = "none") =>
          /\ cache' = Cache(None, FALSE)
          /\ engine' = Cleared(engine)
     /\ (/\ last # None
         /\ last[1].op = "reset_vectorstore"
         /\ last[1].fault = "none"
         /\ EngineCall("ask_question")) =>
          /\ last'[1].attempted
          /\ last'[1].used \in {None, Some(builds + 1)}]_vars

\* the documents are marked as processed and there is no chain
ProcessedWithoutChain ==
  /\ engine # EmptyDict
  /\ engine.documents_processed
  /\ engine.qa_chain = None

\* C25 (the state that never recovers): with the documents marked as
\* processed and no chain, no question processes them and none is answered.
C25_NoRecovery ==
  [][(ProcessedWithoutChain /\ EngineCall("ask_question")) =>
       /\ ~last'[1].attempted
       /\ last'[1].answer = TxtAskError
       /\ ProcessedWithoutChain']_vars

\* the state holds the result of validator op
ValidatorCall(op) == last # None /\ last[1].op = op

\* the value is the text without one final newline that the other checks
\* are made on
EndsWithNewline(s) == Len(s) > 0 /\ s[Len(s)] = "\n"

\* a result is (True, None) or (False, message)
WellFormedResult(result) ==
  IF result.valid THEN result.error = None ELSE result.error # None

\* C27: validate_identificacion returns (True, None) exactly for the
\* strings of 4 to 11 digits and nothing else, and (False, message) for
\* every other value, the empty one included.
C27_IdentificacionExact ==
  ValidatorCall("validate_identificacion") =>
    /\ WellFormedResult(last[1].result)
    /\ last[1].result.valid <=>
         /\ Len(last[1].value) >= 4
         /\ Len(last[1].value) <= 11
         /\ AllIn(last[1].value, 1, Len(last[1].value), UnicodeDigits)

\* C27 (the part that holds): the same for the values that do not end
\* with a newline.
C27_ExceptNewline ==
  (ValidatorCall("validate_identificacion") /\ ~EndsWithNewline(last[1].value)) =>
    /\ WellFormedResult(last[1].result)
    /\ last[1].result.valid <=>
         /\ Len(last[1].value) >= 4
         /\ Len(last[1].value) <= 11
         /\ AllIn(last[1].value, 1, Len(last[1].value), UnicodeDigits)

\* C28: validate_telefono returns (True, None) exactly for the strings of
\* 10 digits whose first is 3 or 6, and (False, message) for every other
\* value.
C28_TelefonoExact ==
  ValidatorCall("validate_telefono") =>
    /\ WellFormedResult(last[1].result)
    /\ last[1].result.valid <=>
         /\ Len(last[1].value) = 10
         /\ last[1].value[1] \in {"3", "6"}
         /\ AllIn(last[1].value, 1, Len(last[1].value), UnicodeDigits)

\* C28 (the part that holds): the same for the values that do not end
\* with a newline.
C28_ExceptNewline ==
  (ValidatorCall("validate_telefono") /\ ~EndsWithNewline(last[1].value)) =>
    /\ WellFormedResult(last[1].result)
    /\ last[1].result.valid <=>
         /\ Len(last[1].value) = 10
         /\ last[1].value[1] \in {"3", "6"}
         /\ AllIn(last[1].value, 1, Len(last[1].value), UnicodeDigits)

\* the whole text is local-part@domain.TLD: one "@", a local part and a
\* domain of their characters, and a TLD of at least two letters at the end
WholeEmail(s) ==
  \E a \in 2..Len(s) :
    \E d \in (a + 2)..Len(s) :
      /\ s[a] = "@"
      /\ s[d] = "."
      /\ \A i \in 1..Len(s) : s[i] = "@" => i = a
      /\ \A i \in 1..Len(s) : s[i] \notin Whitespace
      /\ AllIn(s, 1, a - 1, AsciiLetters \cup AsciiDigits \cup {".", "_", "%", "+", "-"})
      /\ AllIn(s, a + 1, d - 1, AsciiLetters \cup AsciiDigits \cup {".", "-"})
      /\ Len(s) - d >= 2
      /\ AllIn(s, d + 1, Len(s), AsciiLetters)

\* the error each kind of value gets, None for the accepted ones
EmailStage(s) ==
  IF s = <<>> THEN Some(ErrEmailEmpty)
  ELSE IF \A i \in 1..Len(s) : s[i] # "@" THEN Some(ErrEmailNoAt)
  ELSE IF ~WholeEmail(s) THEN Some(ErrEmailFormat)
  ELSE None

\* C29: validate_email gives the empty error to an empty value, the
\* missing-"@" error to a value without "@", the format error to a value
\* with "@" that is not wholly local-part@domain.TLD, and accepts exactly
\* the remaining values with a null error.
C29_EmailStages ==
  ValidatorCall("validate_email") =>
    /\ last[1].result.error = EmailStage(last[1].value)
    /\ last[1].result.valid <=> EmailStage(last[1].value) = None

\* C29 (the part that holds): the same for the values that do not end
\* with a newline.
C29_ExceptNewline ==
  (ValidatorCall("validate_email") /\ ~EndsWithNewline(last[1].value)) =>
    /\ last[1].result.error = EmailStage(last[1].value)
    /\ last[1].result.valid <=> EmailStage(last[1].value) = None

\* the characters U+00C0 to U+00FF of this model
Latin1Letters ==
  {"á", "é", "í", "ó", "ú", "ñ", "ü", "Á", "É", "Í", "Ó", "Ú", "Ñ", "Ü"}

\* C30: validate_nombre_completo accepts a value if and only if it is not
\* empty, has at most 100 characters and each of them is a letter A-Z or
\* a-z, a character of U+00C0 to U+00FF or whitespace; every other value
\* gets an error message.
C30_NombreExact ==
  ValidatorCall("validate_nombre_completo") =>
    /\ WellFormedResult(last[1].result)
    /\ last[1].result.valid <=>
         /\ Len(last[1].value) >= 1
         /\ Len(last[1].value) <= 100
         /\ AllIn(last[1].value, 1, Len(last[1].value),
                  AsciiLetters \cup Latin1Letters \cup Whitespace)

\* C30 (the part that holds): the same with the twelve accented characters
\* of the code's class in the place of the range.
C30_CodeClass ==
  ValidatorCall("validate_nombre_completo") =>
    /\ WellFormedResult(last[1].result)
    /\ last[1].result.valid <=>
         /\ Len(last[1].value) >= 1
         /\ Len(last[1].value) <= 100
         /\ AllIn(last[1].value, 1, Len(last[1].value),
                  AsciiLetters \cup (Latin1Letters \ {"ü", "Ü"}) \cup Whitespace)

\* the keys test_handle_message_initialization requires of a session
RequiredKeys == {"conversation_state", "user_data", "current_user", "session_id"}

\* C31: after handle_message is called on an empty session, the returned
\* session has the keys conversation_state, user_data, current_user and
\* session_id.
C31_SessionKeys ==
  [][(Handled /\ session = EmptyDict) =>
       RequiredKeys \subseteq DOMAIN session']_vars

\* what the code gives: the three keys handle_message initialises and no
\* other
C31_InitialisedKeys ==
  [][(Handled /\ session = EmptyDict) =>
       DOMAIN session' = RequiredKeys \ {"session_id"}]_vars

\* the record get_user returns for the identifier has the keys
UserHasKeys(store, identificacion, keys) ==
  LET user == get_user(store, identificacion)
  IN  user # None /\ keys \subseteq DOMAIN user[1]

\* C32: for every active identifier the record get_user returns carries,
\* next to identifier, name, phone and email, the numeric id of the record
\* and its registration timestamp.
C32_RecordCarriesId ==
  \A identificacion \in StoreIds :
    user_exists(usuarios, identificacion) =>
      UserHasKeys(usuarios, identificacion,
                  {"identificacion", "nombre_completo", "telefono", "email",
                   "id", "fecha_registro"})

\* what the code gives: the five selected columns, with the values of the
\* active row, and no id
C32_SelectedColumns ==
  \A identificacion \in StoreIds :
    user_exists(usuarios, identificacion) =>
      LET user == get_user(usuarios, identificacion)
      IN  /\ user # None
          /\ DOMAIN user[1] = {"identificacion", "nombre_completo",
                               "telefono", "email", "fecha_registro"}
          /\ \E i \in RowsOf(usuarios, identificacion) :
               /\ usuarios[i].activo
               /\ \A f \in DOMAIN user[1] : user[1][f] = usuarios[i][f]

\* the step-free view of a call: the state holds the call op just made
Called(op) == last # None /\ last[1].op = op

\* number of chunks of a chain result, none when the key is absent
Retrieved(result) ==
  IF "source_documents" \in DOMAIN result
  THEN Len(result.source_documents) ELSE 0

\* the words of the list that occur in the question and in the answer,
\* whatever the case of the letters
SharedWords(question, answer) ==
  {i \in 1..Len(relevant_words) :
     /\ Contains(relevant_words[i], Lower(question))
     /\ Contains(relevant_words[i], Lower(answer))}

\* C33: the quality score is min(1.0, s), s being 0.4 for at least one
\* retrieved chunk, 0.2 more for more than one, 0.3 for an answer whose
\* length lies between 50 and 800 (both excluded), and 0.05 for each
\* relevant word in both question and answer; it lies within 0.0 and 1.0.
\* Scores are in hundredths.
C33_QualityScore ==
  Called("_calculate_quality_score") =>
    LET result == last[1].result
        length == Len(result.result)
        s == (IF Retrieved(result) >= 1 THEN 40 ELSE 0)
             + (IF Retrieved(result) > 1 THEN 20 ELSE 0)
             + (IF length > 50 /\ length < 800 THEN 30 ELSE 0)
             + 5 * Cardinality(SharedWords(last[1].question, result.result))
    IN  /\ last[1].score = (IF s < 100 THEN s ELSE 100)
        /\ last[1].score \in 0..100

\* the cap acts: two chunks, 799 characters and six shared words sum to 1.2
C33_Witness ==
  /\ Called("_calculate_quality_score")
  /\ Retrieved(last[1].result) > 1
  /\ Len(last[1].result.result) = 799
  /\ Cardinality(SharedWords(last[1].question, last[1].result.result)) = 6
  /\ last[1].score = 100

\* C33 (the ends of the range): an answer of exactly 50 or exactly 800
\* characters does not get the 0.3
C33_EndsExcluded ==
  (/\ Called("_calculate_quality_score")
   /\ Len(last[1].result.result) \in {50, 800}
   /\ Retrieved(last[1].result) = 0) =>
    last[1].score
      = 5 * Cardinality(SharedWords(last[1].question, last[1].result.result))

\* the chunks of a chain result
ChunksOf(result) ==
  IF "source_documents" \in DOMAIN result THEN result.source_documents ELSE <<>>

\* the document name and the relevance score of each retrieved chunk
ChunkScores(result, question) ==
  [n \in 1..Len(ChunksOf(result)) |->
     [name |-> MetadataGet(ChunksOf(result)[n], "source", "documento"),
      relevance |-> Relevance(ChunksOf(result)[n], Lower(question))]]

\* the document names that have a chunk scoring strictly above 0.3
ScoringNames(chunks) ==
  {chunks[n].name : n \in {m \in 1..Len(chunks) :
                            Above(chunks[m].relevance, <<3, 10>>)}}

\* the score of a document: the maximum over its chunks
DocumentScore(chunks, name) ==
  LET scores == {chunks[n].relevance :
                   n \in {m \in 1..Len(chunks) : chunks[m].name = name}}
  IN  CHOOSE top \in scores : \A other \in scores : ~Above(other, top)

\* C34: the sources ask_question returns are document names of chunks that
\* score strictly above 0.3, hold no name twice, are in the order of
\* falling document score, are at most 2, and metadata.sources_used is
\* their number.
C34_SourceAttribution ==
  (Called("ask_question") /\ "sources_used" \in DOMAIN last[1].metadata) =>
    \A chunks \in {ChunkScores(last[1].result, last[1].question)} :
      LET sources == last[1].sources
      IN  /\ \A i \in 1..Len(sources) : sources[i] \in ScoringNames(chunks)
          /\ \A i, j \in 1..Len(sources) : sources[i] = sources[j] => i = j
          /\ \A i, j \in 1..Len(sources) :
               i < j => ~Above(DocumentScore(chunks, sources[j]),
                               DocumentScore(chunks, sources[i]))
          /\ Len(sources) <= 2
          /\ last[1].metadata.sources_used = Len(sources)

\* three documents score, the best was retrieved last and a second chunk
\* of one of them scores less: two names come back, the best first
C34_Witness ==
  /\ Called("ask_question")
  /\ last[1].fault = "none"
  /\ \E chunks \in {ChunkScores(last[1].result, last[1].question)} :
       /\ Cardinality(ScoringNames(chunks)) = 3
       /\ last[1].sources[1] = chunks[3].name
  /\ Len(last[1].sources) = 2
  /\ last[1].metadata.sources_used = 2

\* C34 (nothing is left out): the sources are as many as the scoring
\* documents allow, and no document left out scores above one returned
C34_BestSources ==
  (Called("ask_question") /\ last[1].fault = "none") =>
    \A chunks \in {ChunkScores(last[1].result, last[1].question)} :
      LET sources == last[1].sources
          names == ScoringNames(chunks)
      IN  /\ Len(sources) = (IF Cardinality(names) < 2 THEN Cardinality(names) ELSE 2)
          /\ \A name \in names :
               (\A i \in 1..Len(sources) : sources[i] # name) =>
                 \A i \in 1..Len(sources) :
                   ~Above(DocumentScore(chunks, name),
                          DocumentScore(chunks, sources[i]))

\* the engine was just constructed with the key configured, the handles
\* made and both cache entries present, so that the cache was loaded, and
\* the step named by fault raised
LoadFailedAt(faults) ==
  /\ Called("__init__")
  /\ last[1].fault \in faults
  /\ config.OPENAI_API_KEY
  /\ cache.vectorstore_path # None
  /\ cache.metadata_path

\* C35: when loading the cached index fails during construction, at the
\* reading of the index or at the reading of metadata.json, the
\* construction completes and leaves the engine unprocessed:
\* documents_processed is False and vectorstore is null.
C35_FailedLoadLeavesNothing ==
  LoadFailedAt({"load", "metadata"}) =>
    /\ ~engine.documents_processed
    /\ engine.vectorstore = None

\* C35 (the reading of the index): a failure of FAISS.load_local leaves
\* the engine as __init__ set it, with the handles.
C35_IndexFailure ==
  LoadFailedAt({"load"}) =>
    engine = [NewEngine EXCEPT !.embeddings = TRUE, !.llm = TRUE]

\* C35 (the reading of metadata.json): the index read before it stays in
\* memory, without a chain and not marked as processed.
C35_MetadataFailure ==
  LoadFailedAt({"metadata"}) =>
    /\ engine.vectorstore = cache.vectorstore_path
    /\ engine.qa_chain = None
    /\ ~engine.documents_processed

\* the session waits for the email of a registration whose identifier has
\* a record in the store, active or deactivated
Stuck ==
  /\ StateOf(session) = NEW_USER_EMAIL
  /\ RowsOf(usuarios, session.user_data.identificacion) # {}

\* C36: a registration whose stashed identifier already has a record can
\* never complete.  Whatever the messages, the other parties of the store
\* and the errors of the store, until the session is restarted it stays in
\* NEW_USER_EMAIL without current_user, its identifier keeps its record and
\* no turn writes a row; and the reply to every valid email is the
\* registration failure.
C36_NeverCompletes ==
  [][(Stuck /\ session' # EmptyDict) =>
       /\ StateOf(session') = NEW_USER_EMAIL
       /\ GetCurrentUser(session') = None
       /\ session'.user_data.identificacion = session.user_data.identificacion
       /\ RowsOf(usuarios', session.user_data.identificacion) # {}
       /\ (Handled => usuarios' = usuarios)
       /\ (Handled /\ validate_email(Strip(inbox[1])).valid /\ raised' = None) =>
            reply' = <<Lit(TxtRegisterFailed)>>]_vars

\* a valid email was refused twice in the session, the identifier being
\* that of a deactivated user
C36_Witness ==
  /\ StateOf(session) = NEW_USER_EMAIL
  /\ Len(calls) = 2
  /\ calls[1][1] = calls[2][1]
  /\ RowsOf(usuarios, calls[1][1]) # {}
  /\ ~user_exists(usuarios, calls[1][1])
  /\ reply = <<Lit(TxtRegisterFailed)>>

\* C36 (the store raising): the only valid emails without the failure
\* reply are those at which the store raises, and they leave no reply
C36_NoReplyOnlyWhenStoreRaises ==
  [][(Handled /\ Stuck /\ validate_email(Strip(inbox[1])).valid) =>
       \/ reply' = <<Lit(TxtRegisterFailed)>> /\ raised' = None
       \/ reply' = <<>> /\ raised' = Some(OperationalError)
                        /\ last'[1].fault # "none"]_vars

\* both calls are for one identifier, both passed the user_exists check
\* before either ran its INSERT, both have left, and the store raised no
\* error of its own
Raced ==
  /\ frames # <<>>
  /\ frames[1].op = "register_user"
  /\ frames[1].identificacion = frames[2].identificacion
  /\ frames[1].pc = "done"
  /\ frames[2].pc = "done"
  /\ frames[1].raced \/ frames[2].raced
  /\ frames[1].fault = "none"
  /\ frames[2].fault = "none"

\* call t returned True, the other returned False, neither raised, and the
\* one record of the identifier holds the values of call t
Won(t) ==
  /\ frames[t].ret = Some(TRUE)
  /\ frames[3 - t].ret = Some(FALSE)
  /\ frames[1].exc = None
  /\ frames[2].exc = None
  /\ \E i \in 1..Len(usuarios) :
       /\ RowsOf(usuarios, frames[t].identificacion) = {i}
       /\ usuarios[i].nombre_completo = frames[t].values[1]
       /\ usuarios[i].telefono = frames[t].values[2]
       /\ usuarios[i].email = frames[t].values[3]
       /\ usuarios[i].activo

\* the identifier of the calls has a deactivated record
DeactivatedBefore ==
  \E i \in RowsOf(usuarios, frames[1].identificacion) : ~usuarios[i].activo

\* C37 as stated: whenever two register_user calls for one identifier both
\* pass the check before either inserts, exactly one returns True, the
\* other returns False without raising, and the one record of the
\* identifier is that of the call that returned True.
C37_ExactlyOneWins ==
  Raced => (Won(1) \/ Won(2))

\* C37: so it is when the store holds no record of the identifier; when it
\* holds a deactivated one, both calls return False without raising and
\* the store is as it was.
C37_OneWinsUnlessDeactivated ==
  Raced =>
    IF DeactivatedBefore
    THEN /\ frames[1].ret = Some(FALSE)
         /\ frames[2].ret = Some(FALSE)
         /\ frames[1].exc = None
         /\ frames[2].exc = None
         /\ usuarios \in RaceStores
    ELSE Won(1) \/ Won(2)

\* the second caller's INSERT ran first, a second later than the checks
C37_Witness ==
  /\ Raced
  /\ ~DeactivatedBefore
  /\ Won(2)
  /\ frames[2].raced
  /\ \E i \in RowsOf(usuarios, frames[2].identificacion) :
       usuarios[i].fecha_registro = 1


\* ---------------------------------------------------------------------
\* DocumentProcessor.split_text_into_chunks, one iteration at a time
\* ---------------------------------------------------------------------

\* a slice index as Python adjusts it: a negative one counts from the end,
\* and both ends are clamped to the text
SliceIndex(i, n) ==
  IF i < 0 THEN (IF i + n < 0 THEN 0 ELSE i + n)
  ELSE IF i > n THEN n ELSE i

\* text[start:end]
Slice(text, start, end) ==
  LET a == SliceIndex(start, Len(text))
      b == SliceIndex(end, Len(text))
  IN  IF a >= b THEN <<>> ELSE SubSeq(text, a + 1, b)

\* text.rfind(ch, start, end) for a one-character ch: the highest index of
\* the slice that holds it, or -1
rfind(text, ch, start, end) ==
  LET a == SliceIndex(start, Len(text))
      b == SliceIndex(end, Len(text))
      found == {i \in a..(b - 1) : text[i + 1] = ch}
  IN  IF found = {} THEN -1 ELSE MaxOf(found)

\* the end of the window that starts at `start`: the last space or newline
\* of the window when there is text after it and the cut lies after start
WindowEnd(text, chunk_size, start) ==
  LET end == start + chunk_size
      last_space == rfind(text, " ", start, end)
      last_newline == rfind(text, "\n", start, end)
      natural_cut == IF last_space > last_newline THEN last_space ELSE last_newline
  IN  IF end < Len(text) /\ natural_cut > start THEN natural_cut ELSE end

\* the start of the next window
NextStart(text, overlap, end) ==
  IF end < Len(text) THEN end - overlap ELSE end

\* the call in progress: the arguments, the locals, and the values `start`
\* had at the head of the loop so far
ChunksFrame(text, chunk_size, overlap) ==
  [op |-> "split_text_into_chunks", text |-> text, chunk_size |-> chunk_size,
   overlap |-> overlap, start |-> 0, chunks |-> <<>>, starts |-> <<>>,
   pc |-> "while", ret |-> None]

\* the longest text, the largest chunk_size and the number of iterations
\* followed
MaxText == 6
MaxChunkSize == 4
MaxIterations == 8

TextChars == {"a", " ", "\n"}

Texts == UNION {[1..n -> TextChars] : n \in 0..MaxText}

InitChunks ==
  /\ session = EmptyDict
  /\ usuarios = <<>>
  /\ now = 0
  /\ inbox = None
  /\ calls = <<>>
  /\ reply = <<>>
  /\ raised = None
  /\ last = None
  /\ NoLog
  /\ NoEngine
  /\ frames = <<>>

\* the call, up to the loop: a text that fits in one chunk is returned as it
\* is, an empty one gives no chunk
SplitTextIntoChunks ==
  /\ frames = <<>>
  /\ \E text \in Texts, chunk_size \in 1..MaxChunkSize :
       \E overlap \in 0..(chunk_size - 1) :
         LET frame == ChunksFrame(text, chunk_size, overlap)
         IN  frames' = IF Len(text) <= chunk_size
                       THEN <<[frame EXCEPT !.pc = "done",
                                 !.ret = Some(IF text = <<>> THEN <<>> ELSE <<text>>)]>>
                       ELSE <<frame>>
  /\ UNCHANGED <<session, usuarios, now, inbox, calls, reply, raised, last, tables, qa>>

\* one pass through the body of `while start < len(text)`
SplitIteration ==
  /\ frames # <<>>
  /\ frames[1].pc = "while"
  /\ frames[1].start < Len(frames[1].text)
  /\ Len(frames[1].starts) < MaxIterations
  /\ LET f == frames[1]
         end == WindowEnd(f.text, f.chunk_size, f.start)
         chunk == Strip(Slice(f.text, f.start, end))
     IN  frames' = <<[f EXCEPT
                        !.chunks = IF chunk # <<>> THEN Append(@, chunk) ELSE @,
                        !.starts = Append(@, f.start),
                        !.start = NextStart(f.text, f.overlap, end)]>>
  /\ UNCHANGED <<session, usuarios, now, inbox, calls, reply, raised, last, tables, qa>>

\* the loop condition fails: return chunks
SplitReturn ==
  /\ frames # <<>>
  /\ frames[1].pc = "while"
  /\ frames[1].start >= Len(frames[1].text)
  /\ frames' = <<[frames[1] EXCEPT !.pc = "done", !.ret = Some(frames[1].chunks)]>>
  /\ UNCHANGED <<session, usuarios, now, inbox, calls, reply, raised, last, tables, qa>>

NextChunks ==
  \/ SplitTextIntoChunks
  \/ SplitIteration
  \/ SplitReturn

SpecChunks == InitChunks /\ [][NextChunks]_vars


\* the step is one pass through the loop of split_text_into_chunks
Iterated ==
  /\ frames # <<>>
  /\ frames' # <<>>
  /\ Len(frames'[1].starts) = Len(frames[1].starts) + 1

\* C38: split_text_into_chunks terminates for every text and every
\* chunk_size > overlap >= 0, because the chunk start index strictly
\* increases on every iteration, also when the last whitespace of the window
\* lies within `overlap` characters of the window start.
C38_StartIncreases ==
  [][Iterated => frames'[1].start > frames[1].start]_vars

\* C38, the loop that does not end: the window starts where an earlier
\* window started, with the same text, so every later pass repeats an
\* earlier one and appends its chunk again
C38_SameStartAgain ==
  /\ frames # <<>>
  /\ frames[1].pc = "while"
  /\ \E i \in DOMAIN frames[1].starts : frames[1].starts[i] = frames[1].start

\* C38, the start that moves back before the text
C38_NegativeStart ==
  /\ frames # <<>>
  /\ frames[1].start < 0

\* C38, what holds of the chunks: every chunk collected or returned is
\* non-empty and at most chunk_size characters long
C38_ChunksWellFormed ==
  frames # <<>> =>
    /\ \A i \in DOMAIN frames[1].chunks :
         /\ frames[1].chunks[i] # <<>>
         /\ Len(frames[1].chunks[i]) <= frames[1].chunk_size
    /\ frames[1].ret # None =>
         \A i \in DOMAIN frames[1].ret[1] :
           /\ frames[1].ret[1][i] # <<>>
           /\ Len(frames[1].ret[1][i]) <= frames[1].chunk_size

\* C38, where the start does increase: the end of the window lies more than
\* `overlap` characters after its start
C38_IncreasesPastOverlap ==
  [][Iterated /\ WindowEnd(frames[1].text, frames[1].chunk_size, frames[1].start)
                   > frames[1].start + frames[1].overlap
       => frames'[1].start > frames[1].start]_vars


\* the fields of the pending registration the session holds
PendingFields == DOMAIN session.user_data

\* a turn was just handled in the given state
HandledIn(state) ==
  /\ last # None
  /\ last[1].state = state

\* C39: in a session that grew from an empty one through handle_message
\* alone, the state tells which fields of the pending registration are
\* present: the identifier in NEW_USER_NAME, the identifier and the name in
\* NEW_USER_PHONE, the identifier, the name and the phone in NEW_USER_EMAIL
\* (and the email once a registration was refused); so the email step never
\* fails on a missing field, and every register_user call has four values.
C39_PendingFields ==
  /\ StateOf(session) = NEW_USER_NAME =>
       PendingFields = {"identificacion"}
  /\ StateOf(session) = NEW_USER_PHONE =>
       PendingFields = {"identificacion", "nombre_completo"}
  /\ StateOf(session) = NEW_USER_EMAIL =>
       /\ {"identificacion", "nombre_completo", "telefono"} \subseteq PendingFields
       /\ PendingFields \subseteq UserDataFields
  /\ HandledIn(NEW_USER_EMAIL) => raised # Some(KeyError)
  /\ \A i \in DOMAIN calls : Len(calls[i]) = 4

\* C39, the case: a valid email was just handled in NEW_USER_EMAIL and
\* register_user was called with the four pending values
C39_Witness ==
  /\ HandledIn(NEW_USER_EMAIL)
  /\ calls # <<>>
  /\ calls[Len(calls)] = RegisterArgs(session.user_data)
  /\ raised = None


\* the pending registration of a session dict
Pending(session_state) ==
  IF "user_data" \in DOMAIN session_state THEN session_state.user_data
  ELSE EmptyDict

\* the state that asks for a field of the registration
AskedIn(field) ==
  IF field = "identificacion" THEN NEW_USER_ID
  ELSE IF field = "nombre_completo" THEN NEW_USER_NAME
  ELSE IF field = "telefono" THEN NEW_USER_PHONE
  ELSE NEW_USER_EMAIL

\* the row the step appended to table usuarios
Written == usuarios'[Len(usuarios')]

\* C40: every record the Controller writes to the User Store is well-formed:
\* each pending value enters the session as the stripped message that the
\* field's validator accepted in the field's own state and is kept until the
\* session is emptied; the Controller writes in NEW_USER_EMAIL only, and the
\* row it writes holds the four pending values, each stripped and accepted
\* by its validator.
C40_WellFormedRecords ==
  [][/\ Handled =>
          LET state == StateOf(session)
              text == Strip(inbox[1])
              before == Pending(session)
              after == Pending(session')
          IN  /\ \A field \in DOMAIN after :
                   \/ field \in DOMAIN before /\ after[field] = before[field]
                   \/ /\ state = AskedIn(field)
                      /\ after[field] = text
                      /\ Validates(state, text).valid
              /\ usuarios' # usuarios =>
                   /\ state = NEW_USER_EMAIL
                   /\ usuarios' = Append(usuarios, Written)
                   /\ DOMAIN after = UserDataFields
                   /\ \A field \in UserDataFields :
                        /\ Written[field] = after[field]
                        /\ Strip(Written[field]) = Written[field]
                        /\ Validates(AskedIn(field), Written[field]).valid
     /\ ~Handled =>
          \/ Pending(session') = Pending(session)
          \/ session' = EmptyDict
    ]_vars

\* C40, the case: the turn in NEW_USER_EMAIL wrote a record, whose
\* identifier was typed with blanks around it
C40_Witness ==
  /\ HandledIn(NEW_USER_EMAIL)
  /\ StateOf(session) = CHAT_ACTIVE
  /\ Strip(MsgId2) # MsgId2
  /\ \E i \in DOMAIN usuarios :
       /\ usuarios[i].identificacion = Strip(MsgId2)
       /\ usuarios[i].nombre_completo = session.user_data.nombre_completo
       /\ usuarios[i].telefono = session.user_data.telefono
       /\ usuarios[i].email = Strip(last[1].message)

====
